---- MODULE Spec2Model ----
(***************************************************************************)
(* Organic Scheduler: the constraint model builder (Optimizator.c) driven  *)
(* by one_shot_scheduling (Scheduler.c) over the network registry          *)
(* (Network.c, Frame.c).  The two backends are modelled by the constraints *)
(* handed to them: Z3 assertions are formula trees over named integer      *)
(* constants, Gurobi constraints are linear / indicator / OR records over  *)
(* variable indices.                                                       *)
(***************************************************************************)
EXTENDS Integers, Sequences, FiniteSets, TLC

VARIABLES network_file, configuration_file, pc, result, solver, select_path, optimization, net, null_page,
          path_selector, gurobi_path_selector, gurobi_var_counter,
          gurobi_frame_distance, gurobi_link_distance,
          z_offset, g_offset, z3_optimize, gurobi_model,
          first_emission

vars == <<network_file, configuration_file, pc, result, solver, select_path, optimization, net, null_page,
          path_selector, gurobi_path_selector, gurobi_var_counter,
          gurobi_frame_distance, gurobi_link_distance,
          z_offset, g_offset, z3_optimize, gurobi_model,
          first_emission>>

(***************************************************************************)
(* Bounds of the model                                                     *)
(***************************************************************************)
\* largest value a cell of freshly allocated memory is taken to hold
MaxHeapValue == 1
HeapValues == (-1)..MaxHeapValue
\* longest Path value a load through a NULL Path pointer is taken to yield
MaxGarbageLen == 2
\* largest starting time of frame 0 drawn for a network
MaxStarting == 1
\* largest switch minimum time drawn for a network
MaxSwitchTime == 1

(***************************************************************************)
(* Program constants                                                       *)
(***************************************************************************)
\* the null pointer; positions in an offset list start above it
NULL == 0
NULL_OFFSET_POINTER == -21
ERROR_EXTRACTING_Z3_OFFSET == -1
ERROR_SCHEDULING_ONE_SHOT == -101
PATH_DOES_NOT_EXIST == -225
OPTIMIZATOR_NOT_IMPLEMENTED == -101
ERROR_INIT_CONSTRAINTS == -201
ERROR_CONTENTION_FREE_CONSTRAINTS == -202
ERROR_END_TO_END_DELAY_CONSTRAINTS == -203
ERROR_PATH_DEPENDENT_CONSTRAINS == -204
ERROR_SETTING_GUROBI_CONSTRAINT == -302
SOLVER_NOT_FOUND == -110

(***************************************************************************)
(* Small helpers                                                           *)
(***************************************************************************)
RECURSIVE Concat(_)
Concat(ss) == IF ss = <<>> THEN <<>> ELSE Head(ss) \o Concat(Tail(ss))

\* the sequence 0, 1, ..., n-1 : the index space of a C for loop
Upto(n) == [j \in 1..n |-> j - 1]

SeqToSet(s) == {s[j] : j \in 1..Len(s)}

Max(a, b) == IF a >= b THEN a ELSE b

RECURSIVE Gcd(_, _)
Gcd(a, b) == IF b = 0 THEN a ELSE Gcd(b, a % b)

Lcm(a, b) == (a * b) \div Gcd(a, b)

(***************************************************************************)
(* Frame.c : frames and their offsets                                      *)
(***************************************************************************)
\* the empty offset that closes every offset list (link = -1, next = NULL)
EmptyOffset == [link |-> -1, num_instances |-> 0, num_replicas |-> 0, timeslots |-> 0, offset |-> <<>>]

\* a frame as set_num_frames allocates it and init_frame prepares its list
FreshFrame == [period |-> -1, deadline |-> -1, size |-> -1, starting |-> -1,
               end_to_end_delay |-> -1, sender_id |-> -1, receivers_id |-> <<>>,
               num_receivers |-> 0, offset_ls |-> <<EmptyOffset>>, offset_hash |-> <<>>]

set_period(frame, period) ==
    IF period <= 0 THEN [rc |-> -3, f |-> frame]
    ELSE [rc |-> 0, f |-> [frame EXCEPT !.period = period]]

set_deadline(frame, deadline) ==
    IF deadline <= 0 THEN [rc |-> -4, f |-> frame]
    ELSE IF deadline > frame.period THEN [rc |-> -11, f |-> frame]
    ELSE [rc |-> 0, f |-> [frame EXCEPT !.deadline = deadline]]

set_size(frame, size) ==
    IF size <= 0 THEN [rc |-> -5, f |-> frame]
    ELSE [rc |-> 0, f |-> [frame EXCEPT !.size = size]]

set_starting(frame, starting) ==
    IF starting < 0 THEN [rc |-> -6, f |-> frame]
    ELSE IF starting >= frame.deadline THEN [rc |-> -13, f |-> frame]
    ELSE [rc |-> 0, f |-> [frame EXCEPT !.starting = starting]]

set_end_to_end_delay(frame, delay) ==
    IF delay <= 0 THEN [rc |-> -7, f |-> frame]
    ELSE IF delay > frame.deadline THEN [rc |-> -12, f |-> frame]
    ELSE [rc |-> 0, f |-> [frame EXCEPT !.end_to_end_delay = delay]]

set_sender_id(frame, sender_id) ==
    IF sender_id < 0 THEN [rc |-> -14, f |-> frame]
    ELSE [rc |-> 0, f |-> [frame EXCEPT !.sender_id = sender_id]]

\* the receivers are copied one by one until the first negative id
RECURSIVE CopyReceivers(_, _)
CopyReceivers(ids, done) ==
    IF ids = <<>> THEN [rc |-> 0, ids |-> done]
    ELSE IF Head(ids) < 0 THEN [rc |-> -15, ids |-> done]
    ELSE CopyReceivers(Tail(ids), Append(done, Head(ids)))

set_receivers_id(frame, receivers_id_array, num_receivers) ==
    IF num_receivers <= 0 THEN [rc |-> -16, f |-> frame]
    ELSE LET c == CopyReceivers(receivers_id_array, <<>>)
         IN  [rc |-> c.rc,
              f  |-> [frame EXCEPT !.receivers_id = c.ids, !.num_receivers = num_receivers]]

init_hash(frame, num_links) ==
    IF num_links <= 0 THEN [rc |-> -2, f |-> frame]
    ELSE [rc |-> 0, f |-> [frame EXCEPT !.offset_hash = [j \in 1..num_links |-> NULL]]]

\* position in the list where the walk of add_new_offset stops
RECURSIVE WalkOffsets(_, _, _)
WalkOffsets(ls, pos, link) ==
    IF pos < Len(ls) /\ ls[pos].link # link THEN WalkOffsets(ls, pos + 1, link) ELSE pos

\* an add_new_offset that puts the new offset at the head of the list
add_new_offset_at_head(ls, link) ==
    LET pos == WalkOffsets(ls, 1, link)
    IN  IF ls[pos].link # link
        THEN [ptr |-> 1, ls |-> <<[EmptyOffset EXCEPT !.link = link]>> \o ls]
        ELSE [ptr |-> NULL, ls |-> ls]

\* add_new_offset: ptr is the position of the returned offset, NULL when the
\* link is already in the list
add_new_offset(ls, link) ==
    LET pos == WalkOffsets(ls, 1, link)
    IN  IF ls[pos].link # link
        THEN [ptr |-> pos,
              ls  |-> Append([ls EXCEPT ![pos] = [EmptyOffset EXCEPT !.link = link]], EmptyOffset)]
        ELSE [ptr |-> NULL, ls |-> ls]

add_accelerator_hash(frame, pos) ==
    [frame EXCEPT !.offset_hash[frame.offset_ls[pos].link + 1] = pos]

\* position of the offset of the frame on the link, NULL if the frame has none
get_frame_offset_by_link(frame, link) == frame.offset_hash[link + 1]

\* the offsets a walk from get_offset_root to is_last_offset visits
OffsetsOf(frame) == SubSeq(frame.offset_ls, 1, Len(frame.offset_ls) - 1)

get_timeslot_size(frame, pos) ==
    IF pos = NULL THEN NULL_OFFSET_POINTER ELSE frame.offset_ls[pos].timeslots

\* the setters of an offset and prepare_offset: rc is what is returned, o the
\* offset that is left
set_num_instances(o, num_instances) ==
    IF num_instances <= 0 THEN [rc |-> -22, o |-> o]
    ELSE [rc |-> 0, o |-> [o EXCEPT !.num_instances = num_instances]]

set_replicas(o, num_replicas) ==
    IF num_replicas < 0 THEN [rc |-> -23, o |-> o]
    ELSE [rc |-> 0, o |-> [o EXCEPT !.num_replicas = num_replicas]]

set_timeslot_size(o, size) ==
    IF size <= 0 THEN [rc |-> -24, o |-> o]
    ELSE [rc |-> 0, o |-> [o EXCEPT !.timeslots = size]]

\* the matrix offset[num_instances][num_replicas] comes from malloc: its cells
\* hold what the memory held, fill
prepare_offset(o, fill) ==
    IF o.num_instances <= 0 \/ o.num_replicas < 0 THEN [rc |-> -29, o |-> o]
    ELSE [rc |-> 0,
          o  |-> [o EXCEPT !.offset = [i \in 1..o.num_instances |-> [r \in 1..o.num_replicas |-> fill]]]]

\* get_offset has no check against the size of the matrix: for a cell beyond
\* it, it returns what the memory there holds, outside
get_offset(o, num_instance, num_replica, outside) ==
    IF num_instance < 0 THEN -22
    ELSE IF num_replica < 0 THEN -23
    ELSE IF num_instance < Len(o.offset) /\ num_replica < Len(o.offset[num_instance + 1])
         THEN o.offset[num_instance + 1][num_replica + 1]
         ELSE outside

set_offset(o, num_instance, num_replica, value) ==
    IF num_instance < 0 THEN [rc |-> -22, o |-> o]
    ELSE IF num_replica < 0 THEN [rc |-> -23, o |-> o]
    ELSE IF num_instance >= o.num_instances THEN [rc |-> -27, o |-> o]
    ELSE IF num_replica >= o.num_replicas THEN [rc |-> -28, o |-> o]
    ELSE IF value < 0 THEN [rc |-> -26, o |-> o]
    ELSE [rc |-> 0, o |-> [o EXCEPT !.offset[num_instance + 1][num_replica + 1] = value]]

(***************************************************************************)
(* Network.c : the registry of links, frames and paths                     *)
(***************************************************************************)
\* marks an entry of end_systems_hash that read_nodes_information_xml never wrote
Unwritten == -1

\* the registry after read_general_information_xml: counts set, arrays allocated
EmptyNetwork(in) ==
    [number_frames |-> in.number_frames, number_switches |-> in.number_switches,
     number_end_systems |-> in.number_end_systems, number_links |-> in.number_links,
     switch_minimum_time |-> in.min_time,
     frames |-> [j \in 1..in.number_frames |-> FreshFrame],
     links |-> [j \in 1..in.number_links |-> [speed |-> -1, type |-> "wired"]],
     paths |-> [sp \in 1..in.number_end_systems |-> [rp \in 1..in.number_end_systems |-> <<>>]],
     end_systems_hash |-> [j \in 1..(in.number_switches + in.number_end_systems) |-> Unwritten],
     hyper_period |-> 0, input |-> in]

\* read_nodes_information_xml: end systems get the next dense index
RECURSIVE read_nodes(_, _, _)
read_nodes(n, nodes, end_system_it) ==
    IF nodes = <<>> THEN n
    ELSE IF Head(nodes).category = "end_system"
         THEN read_nodes([n EXCEPT !.end_systems_hash[Head(nodes).id + 1] = end_system_it],
                         Tail(nodes), end_system_it + 1)
         ELSE read_nodes(n, Tail(nodes), end_system_it)

\* Link.c : set_link_speed; rc is what is returned, l the link that is left
set_link_speed(l, speed) ==
    IF speed <= 0 THEN [rc |-> -1, l |-> l]
    ELSE [rc |-> 0, l |-> [l EXCEPT !.speed = speed]]

add_link(n, link_id, speed, link_type) ==
    IF link_id >= n.number_links THEN [rc |-> -14, n |-> n]
    ELSE IF speed <= 0
         THEN [rc |-> -15, n |-> [n EXCEPT !.links[link_id + 1].type = link_type]]
         ELSE [rc |-> 0, n |-> [n EXCEPT !.links[link_id + 1] = [speed |-> speed, type |-> link_type]]]

add_path(n, sender_id, receiver_id, path, len_path) ==
    IF \/ sender_id < 0 \/ sender_id >= n.number_end_systems + n.number_switches
       \/ receiver_id < 0 \/ receiver_id >= n.number_end_systems + n.number_switches
       \/ len_path <= 0
    THEN [rc |-> PATH_DOES_NOT_EXIST, n |-> n]
    ELSE LET sender_pos == n.end_systems_hash[sender_id + 1]
             receiver_pos == n.end_systems_hash[receiver_id + 1]
         IN  [rc |-> 0,
              n  |-> [n EXCEPT !.paths[sender_pos + 1][receiver_pos + 1] =
                                  Append(@, [length |-> len_path, path |-> SubSeq(path, 1, len_path)])]]

\* get_path: the pointer it returns, as the table cell it points at
get_path(n, sender_id, receiver_id, path_id) ==
    IF \/ sender_id < 0 \/ sender_id >= n.number_end_systems
       \/ receiver_id < 0 \/ receiver_id >= n.number_end_systems
    THEN [null |-> TRUE, sp |-> 0, rp |-> 0, id |-> 0]
    ELSE LET sender_pos == n.end_systems_hash[sender_id + 1]
             receiver_pos == n.end_systems_hash[receiver_id + 1]
         IN  IF Len(n.paths[sender_pos + 1][receiver_pos + 1]) >= path_id
             THEN [null |-> TRUE, sp |-> 0, rp |-> 0, id |-> 0]
             ELSE [null |-> FALSE, sp |-> sender_pos, rp |-> sender_pos, id |-> path_id]

add_frame_information(n, frame_id, period, deadline, size, starting_time, end_to_end) ==
    IF frame_id >= n.number_frames THEN [rc |-> -11, n |-> n]
    ELSE LET f0 == n.frames[frame_id + 1]
             s1 == set_period(f0, period)
             s2 == set_deadline(s1.f, deadline)
             s3 == set_size(s2.f, size)
             s4 == set_starting(s3.f, starting_time)
             s5 == set_end_to_end_delay(s4.f, end_to_end)
             put(f) == [n EXCEPT !.frames[frame_id + 1] = f]
         IN  IF s1.rc < 0 THEN [rc |-> -12, n |-> put(s1.f)]
             ELSE IF s2.rc < 0 THEN [rc |-> -12, n |-> put(s2.f)]
             ELSE IF s3.rc < 0 THEN [rc |-> -12, n |-> put(s3.f)]
             ELSE IF s4.rc # 0 THEN [rc |-> -12, n |-> put(s4.f)]
             ELSE IF s5.rc # 0 THEN [rc |-> -12, n |-> put(s5.f)]
             ELSE [rc |-> 0, n |-> put(init_hash(s5.f, n.number_links).f)]

RECURSIVE read_links(_, _)
read_links(n, links) ==
    IF links = <<>> THEN n
    ELSE read_links(add_link(n, Head(links).id, Head(links).speed, Head(links).type).n, Tail(links))

RECURSIVE read_paths(_, _)
read_paths(n, ps) ==
    IF ps = <<>> THEN n
    ELSE read_paths(add_path(n, Head(ps).sender, Head(ps).receiver, Head(ps).path,
                             Len(Head(ps).path)).n, Tail(ps))

RECURSIVE read_frames(_, _)
read_frames(n, fs) ==
    IF fs = <<>> THEN n
    ELSE LET x == Head(fs)
         IN  read_frames(add_frame_information(n, x.id, x.period, x.deadline, x.size,
                                               x.starting, x.end_to_end).n, Tail(fs))

\* parse_network_xml: general information, topology (nodes, links, paths), frames
parse_network_xml(in) ==
    read_frames(read_paths(read_links(read_nodes(EmptyNetwork(in), in.nodes, 0), in.links),
                           in.paths), in.frames)

(***************************************************************************)
(* Network.h declares initialize_network, get_num_paths and                *)
(* get_hyper_period; their bodies follow the data model of the             *)
(* specification (sections 3, 4.1, 4.2 and 4.5).                           *)
(***************************************************************************)
get_num_paths(n, sender_id, receiver_id) ==
    Len(n.paths[n.end_systems_hash[sender_id + 1] + 1][n.end_systems_hash[receiver_id + 1] + 1])

\* the i-th path stored for the pair, as add_path stored it
StoredPath(n, sender_id, receiver_id, path_id) ==
    n.paths[n.end_systems_hash[sender_id + 1] + 1][n.end_systems_hash[receiver_id + 1] + 1][path_id + 1]

RECURSIVE LcmOfPeriods(_)
LcmOfPeriods(fs) == IF fs = <<>> THEN 1 ELSE Lcm(Head(fs).period, LcmOfPeriods(Tail(fs)))

get_hyper_period(n) == n.hyper_period

\* timeslots = ceil(8 * size / speed)
Timeslots(size, speed) == (8 * size + speed - 1) \div speed

\* the links of all paths from the sender to the receivers, in path order
LinksOfFrame(n, frame) ==
    Concat([k \in 1..frame.num_receivers |->
              Concat([p \in 1..get_num_paths(n, frame.sender_id, frame.receivers_id[k]) |->
                        StoredPath(n, frame.sender_id, frame.receivers_id[k], p - 1).path])])

\* one offset per distinct link, with instances, replicas and timeslots fixed
RECURSIVE AddOffsets(_, _, _)
AddOffsets(n, frame, links) ==
    IF links = <<>> THEN frame
    ELSE LET a == add_new_offset(frame.offset_ls, Head(links))
             l == n.links[Head(links) + 1]
             o == [link |-> Head(links),
                   num_instances |-> n.hyper_period \div frame.period,
                   num_replicas |-> IF l.type = "wireless" THEN n.input.replicas ELSE 1,
                   timeslots |-> Timeslots(frame.size, l.speed), offset |-> <<>>]
         IN  IF a.ptr = NULL THEN AddOffsets(n, frame, Tail(links))
             ELSE AddOffsets(n, add_accelerator_hash([frame EXCEPT !.offset_ls = [a.ls EXCEPT ![a.ptr] = o]],
                                                      a.ptr), Tail(links))

initialize_network(n) ==
    LET withEnds == [n EXCEPT !.frames =
                        [j \in 1..n.number_frames |->
                           set_receivers_id(set_sender_id(n.frames[j], n.input.frames[j].sender).f,
                                            n.input.frames[j].receivers,
                                            Len(n.input.frames[j].receivers)).f],
                        !.hyper_period = LcmOfPeriods(n.frames)]
    IN  [withEnds EXCEPT !.frames =
            [j \in 1..n.number_frames |->
               AddOffsets(withEnds, withEnds.frames[j], LinksOfFrame(withEnds, withEnds.frames[j]))]]

\* every offset of the network prepared: the matrices of the start times are
\* allocated, from memory that holds fill
PrepareOffsets(n, fill) ==
    [n EXCEPT !.frames =
       [j \in 1..n.number_frames |->
          [n.frames[j] EXCEPT !.offset_ls =
             [k \in 1..Len(n.frames[j].offset_ls) |->
                IF k < Len(n.frames[j].offset_ls) THEN prepare_offset(n.frames[j].offset_ls[k], fill).o
                ELSE n.frames[j].offset_ls[k]]]]]

(***************************************************************************)
(* The network files the model is run on                                   *)
(***************************************************************************)
Node(id, category) == [id |-> id, category |-> category]
LinkIn(id, speed, type) == [id |-> id, speed |-> speed, type |-> type]
PathIn(s, r, path) == [sender |-> s, receiver |-> r, path |-> path]
FrameIn(id, period, deadline, size, starting, e2e, s, rs) ==
    [id |-> id, period |-> period, deadline |-> deadline, size |-> size, starting |-> starting,
     end_to_end |-> e2e, sender |-> s, receivers |-> rs]

\* two frames over the same two-link path; frame 1 has two instances
ChainNetwork(starting0, min_time) ==
    [name |-> "chain", number_frames |-> 2, number_switches |-> 1, number_end_systems |-> 2,
     number_links |-> 2, min_time |-> min_time, replicas |-> 1,
     nodes |-> <<Node(0, "end_system"), Node(1, "end_system"), Node(2, "switch")>>,
     links |-> <<LinkIn(0, 8, "wired"), LinkIn(1, 8, "wired")>>,
     paths |-> <<PathIn(0, 1, <<0, 1>>)>>,
     frames |-> <<FrameIn(0, 8, 8, 2, starting0, 6, 0, <<1>>),
                  FrameIn(1, 4, 4, 1, 0, 4, 0, <<1>>)>>]

\* one sender, two receivers, alternative paths to receiver 1
MulticastNetwork(starting0, min_time) ==
    [name |-> "multicast", number_frames |-> 2, number_switches |-> 1, number_end_systems |-> 3,
     number_links |-> 3, min_time |-> min_time, replicas |-> 1,
     nodes |-> <<Node(0, "end_system"), Node(1, "end_system"), Node(2, "end_system"), Node(3, "switch")>>,
     links |-> <<LinkIn(0, 8, "wired"), LinkIn(1, 8, "wired"), LinkIn(2, 8, "wired")>>,
     paths |-> <<PathIn(0, 1, <<0, 1>>), PathIn(0, 1, <<2>>), PathIn(0, 2, <<0>>)>>,
     frames |-> <<FrameIn(0, 4, 4, 1, starting0, 4, 0, <<1, 2>>),
                  FrameIn(1, 4, 4, 1, 0, 4, 0, <<2>>)>>]

\* two frames over one wireless link that carries two replicas of each instance
WirelessNetwork(starting0, min_time) ==
    [name |-> "wireless", number_frames |-> 2, number_switches |-> 1, number_end_systems |-> 2,
     number_links |-> 1, min_time |-> min_time, replicas |-> 2,
     nodes |-> <<Node(0, "end_system"), Node(1, "end_system"), Node(2, "switch")>>,
     links |-> <<LinkIn(0, 8, "wireless")>>,
     paths |-> <<PathIn(0, 1, <<0>>)>>,
     frames |-> <<FrameIn(0, 4, 4, 2, starting0, 4, 0, <<1>>),
                  FrameIn(1, 4, 3, 1, 0, 3, 0, <<1>>)>>]

NetworkFiles ==
    UNION {{ChainNetwork(s, m), MulticastNetwork(s, m), WirelessNetwork(s, m)} :
             <<s, m>> \in (0..MaxStarting) \X (0..MaxSwitchTime)}

(***************************************************************************)
(* The two backends, as the builder uses them.                             *)
(* Z3: an integer constant is its name; an assertion is a formula tree.    *)
(* Gurobi: a variable is its index in the order of the GRBaddvar calls; a  *)
(* constraint that names an index the model does not hold is refused, and  *)
(* kept aside in "refused" as the record of the call.                      *)
(***************************************************************************)
OName(frame_it, instance, replica, link) == <<"O", frame_it, instance, replica, link>>
XName(frame_it, receiver_it, path_it) == <<"X", frame_it, receiver_it, path_it, 0>>

Term(vs, c) == [vs |-> vs, c |-> c]
Var(v) == Term(<<v>>, 0)
Num(c) == Term(<<>>, c)
Cmp(op, l, r) == [k |-> "cmp", op |-> op, l |-> l, r |-> r]
Or(args) == [k |-> "or", args |-> args]
Ite(c, t, e) == [k |-> "ite", c |-> c, t |-> t, e |-> e]

GRB_ERROR_INDEX_OUT_OF_RANGE == 10006

GVar(lb, ub, vtype, obj, name) == [lb |-> lb, ub |-> ub, vtype |-> vtype, obj |-> obj, name |-> name]
GLin(vs, vals, sense, rhs) == [k |-> "lin", vars |-> vs, vals |-> vals, sense |-> sense, rhs |-> rhs]
GInd(binvar, binval, vs, vals, sense, rhs) ==
    [k |-> "ind", binvar |-> binvar, binval |-> binval, vars |-> vs, vals |-> vals,
     sense |-> sense, rhs |-> rhs]
GOr(resvar, vs) == [k |-> "or", resvar |-> resvar, vars |-> vs]

\* the indices a Gurobi constraint names
GIndices(c) ==
    SeqToSet(c.vars) \cup (IF c.k = "ind" THEN {c.binvar} ELSE IF c.k = "or" THEN {c.resvar} ELSE {})

\* the state the emission works on
\*   z, zo : Z3 assertions and the Z3 constant of each offset cell
\*   g, go : Gurobi model and the Gurobi handle of each offset cell
\*   c     : gurobi_var_counter;  err : first error code returned
Emission(z, zo, g, go, c) == [z |-> z, zo |-> zo, g |-> g, go |-> go, c |-> c, err |-> 0]

Z3_optimize_assert(S, tag, key, f) ==
    [S EXCEPT !.z = Append(@, [tag |-> tag, key |-> key, f |-> f])]

GRBaddvar(S, v) == [S EXCEPT !.g.vars = Append(@, v)]

GRBaccepts(S, c) == \A j \in GIndices(c) : j >= 0 /\ j < Len(S.g.vars)

\* GRBaddconstr / GRBaddgenconstrIndicator / GRBaddgenconstrOr
GRBadd(S, tag, key, c) ==
    IF GRBaccepts(S, c)
    THEN [S EXCEPT !.g.constrs = Append(@, [tag |-> tag, key |-> key, c |-> c])]
    ELSE [S EXCEPT !.g.refused = Append(@, [tag |-> tag, key |-> key, c |-> c])]

GRBrc(S, c) == IF GRBaccepts(S, c) THEN 0 ELSE GRB_ERROR_INDEX_OUT_OF_RANGE

Fail(S, code) == [S EXCEPT !.err = code]

\* an offset cell: frame, position of the offset in the frame's list, instance, replica
Cell(frame_it, pos, instance, replica) == <<frame_it, pos, instance, replica>>

get_z3_offset(S, cell) ==
    IF cell[2] = NULL THEN <<>> ELSE S.zo[cell]

get_gurobi_offset(S, cell) ==
    IF cell[2] = NULL THEN NULL_OFFSET_POINTER ELSE S.go[cell]

(***************************************************************************)
(* Optimizator.c : the private constraint primitives                       *)
(***************************************************************************)
init_variable(S, cell, name, csolver) ==
    IF csolver = "z3" THEN [S EXCEPT !.zo = (cell :> name) @@ @] ELSE S

\* the lower bound the Gurobi branch of set_offset_range gives the variable
minimum_posible == IF ~path_selector.alloc THEN 1 ELSE 0

\* offset[instance][replica] in (min, max]
set_offset_range(S, cell, min, max, name, csolver) ==
    IF csolver = "z3"
    THEN LET z3_offset == get_z3_offset(S, cell)
             gt == Cmp("gt", Var(z3_offset), Num(min))
             lower == IF path_selector.alloc
                      THEN Or(<<gt, Cmp("eq", Var(z3_offset), Num(0))>>)
                      ELSE gt
         IN  IF z3_offset = <<>> THEN Fail(S, ERROR_EXTRACTING_Z3_OFFSET)
             ELSE Z3_optimize_assert(Z3_optimize_assert(S, "range", cell, lower),
                                     "range", cell, Cmp("le", Var(z3_offset), Num(max)))
    ELSE LET S1 == GRBaddvar(S, GVar(minimum_posible, max, "I", 0, name))
         IN  [S1 EXCEPT !.go = (cell :> S.c) @@ @, !.c = S.c + 1]

\* offset2[instance][replica] = offset1[instance][replica] + distance
set_fixed_distance(S, cell1, cell2, distance, csolver) ==
    IF csolver = "z3"
    THEN LET z3_offset1 == get_z3_offset(S, cell1)
             z3_offset2 == get_z3_offset(S, cell2)
             eq == Cmp("eq", Var(z3_offset2), Term(<<z3_offset1>>, distance))
             z3_formula == IF path_selector.alloc
                           THEN Ite(Cmp("eq", Var(z3_offset1), Num(0)),
                                    Cmp("eq", Var(z3_offset2), Num(0)), eq)
                           ELSE eq
         IN  IF z3_offset1 = <<>> \/ z3_offset2 = <<>> THEN Fail(S, ERROR_EXTRACTING_Z3_OFFSET)
             ELSE Z3_optimize_assert(S, "linkage", cell2, z3_formula)
    ELSE LET variables == <<get_gurobi_offset(S, cell2), get_gurobi_offset(S, cell1)>>
         IN  IF ~gurobi_path_selector.alloc
             THEN LET c == GLin(variables, <<1, -1>>, "=", distance)
                  IN  IF GRBrc(S, c) # 0 THEN Fail(S, ERROR_SETTING_GUROBI_CONSTRAINT) ELSE GRBadd(S, "linkage", cell2, c)
             ELSE LET S1 == [GRBaddvar(S, GVar(0, 1, "B", 0, "")) EXCEPT !.c = S.c + 1]
                      S2 == GRBadd(S1, "linkage", cell2,
                                   GInd(S1.c - 1, 1, variables, <<1, -1>>, "=", distance))
                  IN  GRBadd(S2, "linkage", cell2, GInd(S1.c - 1, 0, variables, <<1, 1>>, "=", 0))

\* offset1 + distance1 <= offset2  OR  offset2 + distance2 <= offset1
avoid_intersection(S, cell1, cell2, link1, distance1, distance2, csolver) ==
    LET key == <<cell1, cell2>> IN
    IF csolver = "z3"
    THEN LET z3_offset1 == get_z3_offset(S, cell1)
             z3_offset2 == get_z3_offset(S, cell2)
             disj == Or(<<Cmp("le", Term(<<z3_offset1>>, distance1), Var(z3_offset2)),
                          Cmp("le", Term(<<z3_offset2>>, distance2), Var(z3_offset1))>>)
             z3_formula == IF path_selector.alloc
                           THEN Or(<<disj, Cmp("eq", Var(z3_offset1), Num(0))>>)
                           ELSE disj
         IN  IF z3_offset1 = <<>> \/ z3_offset2 = <<>> THEN Fail(S, ERROR_EXTRACTING_Z3_OFFSET)
             ELSE Z3_optimize_assert(S, "contention", key, z3_formula)
    ELSE LET o1 == get_gurobi_offset(S, cell1)
             o2 == get_gurobi_offset(S, cell2)
             ld == gurobi_link_distance[link1 + 1]
         IN  IF ~gurobi_path_selector.alloc
             THEN LET S1 == GRBaddvar(S, GVar(0, 1, "B", 0, ""))
                      S2 == GRBaddvar(S1, GVar(0, 1, "B", 0, ""))
                      S3 == [GRBaddvar(S2, GVar(1, 1, "B", 0, "")) EXCEPT !.c = S.c + 3]
                      n  == S3.c
                      S4 == GRBadd(S3, "contention", key, GOr(n - 1, <<n - 3, n - 2>>))
                      S5 == GRBadd(S4, "contention", key,
                                   GInd(n - 3, 1, <<o1, o2, ld>>, <<1, -1, 1>>, "<=", -distance1))
                  IN  GRBadd(S5, "contention", key,
                             GInd(n - 2, 1, <<o2, o1, ld>>, <<1, -1, 1>>, "<=", -distance2))
             ELSE LET S1 == GRBaddvar(S, GVar(0, 1, "B", 0, ""))
                      S2 == GRBaddvar(S1, GVar(0, 1, "B", 0, ""))
                      S3 == GRBaddvar(S2, GVar(0, 1, "B", 0, ""))
                      S4 == [GRBaddvar(S3, GVar(1, 1, "B", 0, "")) EXCEPT !.c = S.c + 4]
                      n  == S4.c
                      S5 == GRBadd(S4, "contention", key, GOr(n - 1, <<n - 4, n - 3, n - 2>>))
                      S6 == GRBadd(S5, "contention", key,
                                   GInd(n - 4, 1, <<o1, o2, ld>>, <<1, -1, 1>>, "<=", -distance1))
                      S7 == GRBadd(S6, "contention", key,
                                   GInd(n - 3, 1, <<o2, o1, ld>>, <<1, -1, 1>>, "<=", -distance2))
                  IN  GRBadd(S7, "contention", key, GInd(n - 2, 1, <<o2, o1>>, <<1, 1>>, "=", 0))

\* offset1 + distance >= offset2
set_maximum_distance(S, cell1, cell2, distance, frame_it, receiver_it, path_it, csolver) ==
    LET key == <<frame_it, receiver_it, path_it>> IN
    IF csolver = "z3"
    THEN LET z3_offset1 == get_z3_offset(S, cell1)
             z3_offset2 == get_z3_offset(S, cell2)
         IN  IF z3_offset1 = <<>> \/ z3_offset2 = <<>> THEN Fail(S, ERROR_EXTRACTING_Z3_OFFSET)
             ELSE Z3_optimize_assert(S, "maxdist", key,
                                     Cmp("ge", Term(<<z3_offset1>>, distance), Var(z3_offset2)))
    ELSE LET o1 == get_gurobi_offset(S, cell1)
             o2 == get_gurobi_offset(S, cell2)
             fd == gurobi_frame_distance[frame_it + 1]
             fr == net.frames[frame_it + 1]
         IN  IF gurobi_path_selector.alloc
             THEN LET x  == gurobi_path_selector.at[key]
                      S1 == GRBadd(S, "maxdist", key, GInd(x, 1, <<o2, o1>>, <<1, -1>>, "<=", distance))
                      S2 == GRBadd(S1, "maxdist_first", key,
                                   GInd(x, 1, <<o1, fd>>, <<1, -1>>, ">=", fr.starting))
                  IN  GRBadd(S2, "maxdist_last", key,
                             GInd(x, 1, <<o2, fd>>, <<1, -1>>, "<=", fr.deadline))
             ELSE LET S1 == GRBadd(S, "maxdist", key, GLin(<<o2, o1>>, <<1, -1>>, "<=", distance))
                      S2 == GRBadd(S1, "maxdist_first", key,
                                   GLin(<<o1, fd>>, <<1, -1>>, ">=", fr.starting))
                  IN  GRBadd(S2, "maxdist_last", key, GLin(<<o2, fd>>, <<1, 1>>, "<=", fr.deadline))

\* offset1 + distance <= offset2
set_minimum_distance(S, cell1, cell2, distance, frame_it, receiver_it, path_it, csolver) ==
    LET key == <<frame_it, receiver_it, path_it>> IN
    IF csolver = "z3"
    THEN LET z3_offset1 == get_z3_offset(S, cell1)
             z3_offset2 == get_z3_offset(S, cell2)
             le == Cmp("le", Term(<<z3_offset1>>, distance), Var(z3_offset2))
             z3_formula == IF path_selector.alloc
                           THEN Or(<<le, Cmp("eq", Var(path_selector.at[key]), Num(0))>>)
                           ELSE le
         IN  IF z3_offset1 = <<>> \/ z3_offset2 = <<>> THEN Fail(S, ERROR_EXTRACTING_Z3_OFFSET)
             ELSE Z3_optimize_assert(S, "mindist", <<key, cell1, cell2>>, z3_formula)
    ELSE LET variables == <<get_gurobi_offset(S, cell2), get_gurobi_offset(S, cell1),
                            gurobi_frame_distance[frame_it + 1]>>
         IN  IF ~gurobi_path_selector.alloc
             THEN GRBadd(S, "mindist", <<key, cell1, cell2>>,
                         GLin(variables, <<1, -1, -1>>, ">=", distance + 1))
             ELSE GRBadd(S, "mindist", <<key, cell1, cell2>>,
                         GInd(gurobi_path_selector.at[key], 1, variables, <<1, -1, -1>>, ">=",
                              distance + 1))

(***************************************************************************)
(* Loads through the Path pointer get_path returns.  A load through NULL   *)
(* is undefined: the process faults, or the load yields whatever lies at   *)
(* address 0, the same bytes for every load of one run (null_page).        *)
(***************************************************************************)
GarbagePaths(n) ==
    UNION {{[length |-> len, path |-> q] : q \in [1..len -> 0..(n.number_links - 1)]} :
             len \in 1..MaxGarbageLen}

Deref(n, ptr) ==
    IF ptr.null THEN null_page.path ELSE n.paths[ptr.sp + 1][ptr.rp + 1][ptr.id + 1]

\* the Path the builder works on for path path_it of receiver receiver_it of the frame
PathOf(n, frame_it, receiver_it, path_it) ==
    LET fr == n.frames[frame_it + 1]
    IN  Deref(n, get_path(n, fr.sender_id, fr.receivers_id[receiver_it + 1], path_it))

\* (frame, receiver, path) in the order of the three nested loops of the builder
Triples(n) ==
    Concat([f \in 1..n.number_frames |->
      Concat([k \in 1..n.frames[f].num_receivers |->
        [p \in 1..get_num_paths(n, n.frames[f].sender_id, n.frames[f].receivers_id[k]) |->
           <<f - 1, k - 1, p - 1>>]])])

\* does any of the path loops reach a get_path call that returns NULL
LoadsThroughNull(n) ==
    \E j \in 1..Len(Triples(n)) :
       LET t == Triples(n)[j]
       IN  get_path(n, n.frames[t[1] + 1].sender_id,
                    n.frames[t[1] + 1].receivers_id[t[2] + 1], t[3]).null

(***************************************************************************)
(* Optimizator.c : the public builder functions                            *)
(***************************************************************************)
\* (frame, offset, instance, replica) in the order of create_offset_variables
AllCells(n) ==
    Concat([f \in 1..n.number_frames |->
      Concat([pos \in 1..Len(OffsetsOf(n.frames[f])) |->
        Concat([i \in 1..n.frames[f].offset_ls[pos].num_instances |->
          [r \in 1..n.frames[f].offset_ls[pos].num_replicas |-> Cell(f - 1, pos, i - 1, r - 1)]])])])

\* the distance set_fixed_distance links a cell to cell (0,0) with
LinkageDistance(frame, instance) == frame.period * instance

create_offset_cell(S, n, cell, csolver) ==
    LET fr == n.frames[cell[1] + 1]
        o  == fr.offset_ls[cell[2]]
        name == OName(cell[1], cell[3], cell[4], o.link)
        S1 == init_variable(S, cell, name, csolver)
        maximum_time == (fr.deadline - o.timeslots) + fr.period * cell[3]
        minimum_time == fr.starting + fr.period * cell[3]
        S2 == set_offset_range(S1, cell, minimum_time, maximum_time, name, csolver)
    IN  IF S2.err < 0 THEN Fail(S2, ERROR_INIT_CONSTRAINTS)
        ELSE IF cell[3] # 0 \/ cell[4] # 0
        THEN LET S3 == set_fixed_distance(S2, Cell(cell[1], cell[2], 0, 0), cell,
                                          LinkageDistance(fr, cell[3]), csolver)
             IN  IF S3.err < 0 THEN Fail(S3, ERROR_INIT_CONSTRAINTS) ELSE S3
        ELSE S2

RECURSIVE create_offset_loop(_, _, _, _)
create_offset_loop(S, n, cells, csolver) ==
    IF cells = <<>> \/ S.err # 0 THEN S
    ELSE create_offset_loop(create_offset_cell(S, n, Head(cells), csolver), n, Tail(cells), csolver)

create_offset_variables(S, n, csolver) == create_offset_loop(S, n, AllCells(n), csolver)

\* 1 if the allowed transmission windows of the two instances intersect
offsets_share_interval(frame1, instance1, frame2, instance2) ==
    LET min1 == frame1.period * instance1 + frame1.starting + 1
        max1 == frame1.period * instance1 + frame1.deadline + 1
        min2 == frame2.period * instance2 + frame2.starting + 1
        max2 == frame2.period * instance2 + frame2.deadline + 1
    IN  IF (min1 <= min2 /\ min2 < max1) \/ (min2 <= min1 /\ min1 < max2) THEN 1 ELSE 0

\* the cells of earlier frames on the link of the cell, in loop order
PreviousCells(n, cell) ==
    LET link == n.frames[cell[1] + 1].offset_ls[cell[2]].link
    IN  Concat([pf \in 1..cell[1] |->
          LET ppos == get_frame_offset_by_link(n.frames[pf], link)
          IN  IF ppos = NULL THEN <<>>
              ELSE Concat([pi \in 1..n.frames[pf].offset_ls[ppos].num_instances |->
                     [pr \in 1..n.frames[pf].offset_ls[ppos].num_replicas |->
                        Cell(pf - 1, ppos, pi - 1, pr - 1)]])])

\* the pairs contention_free compares, in loop order
ContentionPairs(n) ==
    Concat([j \in 1..Len(AllCells(n)) |->
      [q \in 1..Len(PreviousCells(n, AllCells(n)[j])) |->
         <<AllCells(n)[j], PreviousCells(n, AllCells(n)[j])[q]>>]])

contention_pair(S, n, pair, csolver) ==
    LET fr1 == n.frames[pair[1][1] + 1]
        fr2 == n.frames[pair[2][1] + 1]
        o1  == fr1.offset_ls[pair[1][2]]
        o2  == fr2.offset_ls[pair[2][2]]
    IN  IF offsets_share_interval(fr1, pair[1][3], fr2, pair[2][3]) = 1
        THEN LET S1 == avoid_intersection(S, pair[1], pair[2], o1.link, o1.timeslots,
                                          o2.timeslots, csolver)
             IN  IF S1.err < 0 THEN Fail(S1, ERROR_CONTENTION_FREE_CONSTRAINTS) ELSE S1
        ELSE S

RECURSIVE contention_loop(_, _, _, _)
contention_loop(S, n, pairs, csolver) ==
    IF pairs = <<>> \/ S.err # 0 THEN S
    ELSE contention_loop(contention_pair(S, n, Head(pairs), csolver), n, Tail(pairs), csolver)

contention_free(S, n, csolver) == contention_loop(S, n, ContentionPairs(n), csolver)

\* (frame, receiver) in the order of the two outer loops of the builder
Pairs(n) ==
    Concat([f \in 1..n.number_frames |->
      [k \in 1..n.frames[f].num_receivers |-> <<f - 1, k - 1>>]])

NumPathsOf(n, frame_it, receiver_it) ==
    get_num_paths(n, n.frames[frame_it + 1].sender_id,
                  n.frames[frame_it + 1].receivers_id[receiver_it + 1])

\* the body of the path loop of init_path_selector; R = [S, at]
RECURSIVE init_path_selector_paths(_, _, _, _, _, _)
init_path_selector_paths(R, frame_it, receiver_it, path_it, num_paths, csolver) ==
    IF path_it >= num_paths THEN R
    ELSE LET key == <<frame_it, receiver_it, path_it>>
             name == XName(frame_it, receiver_it, path_it)
         IN  IF csolver = "z3"
             THEN LET S1 == Z3_optimize_assert(R.S, "selector_bound", key, Cmp("ge", Var(name), Num(0)))
                      S2 == Z3_optimize_assert(S1, "selector_bound", key, Cmp("le", Var(name), Num(1)))
                  IN  init_path_selector_paths([S |-> S2, at |-> (key :> name) @@ R.at],
                                               frame_it, receiver_it, path_it + 1, num_paths, csolver)
             ELSE LET S1 == [GRBaddvar(R.S, GVar(0, 1, "B", 0, name)) EXCEPT !.c = R.S.c + 1]
                  IN  init_path_selector_paths([S |-> S1, at |-> (key :> R.S.c) @@ R.at],
                                               frame_it, receiver_it, path_it + 1, num_paths, csolver)

\* a closing constraint that would let a (frame, receiver) select no path at all
SelectorSumAtMost == "<="

\* the sense of the constraint that closes the selectors of one (frame, receiver)
SelectorSumSense == "="

init_path_selector_pair(R, n, fk, csolver) ==
    LET num_paths == NumPathsOf(n, fk[1], fk[2])
        R1 == init_path_selector_paths(R, fk[1], fk[2], 0, num_paths, csolver)
        sel == [p \in 1..num_paths |-> R1.at[<<fk[1], fk[2], p - 1>>]]
    IN  IF csolver = "z3"
        THEN [R1 EXCEPT !.S = Z3_optimize_assert(R1.S, "selector_sum", fk,
                                 Cmp(IF SelectorSumSense = "=" THEN "eq" ELSE "le", Term(sel, 0), Num(1)))]
        ELSE [R1 EXCEPT !.S = GRBadd(R1.S, "selector_sum", fk,
                                 GLin(sel, [p \in 1..num_paths |-> 1], SelectorSumSense, 1))]

RECURSIVE init_path_selector_loop(_, _, _, _)
init_path_selector_loop(R, n, pairs, csolver) ==
    IF pairs = <<>> THEN R
    ELSE init_path_selector_loop(init_path_selector_pair(R, n, Head(pairs), csolver), n,
                                 Tail(pairs), csolver)

\* result: the emission and the selector table (path_selector / gurobi_path_selector)
init_path_selector(S, n, csolver) ==
    init_path_selector_loop([S |-> S, at |-> <<>>], n, Pairs(n), csolver)

\* the body of one distance variable of initialize_distances; R = [S, h]
distance_variable(R, ub, name, opt, tag, id) ==
    LET S1 == [GRBaddvar(R.S, GVar(0, ub, "I", IF opt = 0 THEN 0 ELSE 1, name)) EXCEPT !.c = R.S.c + 1]
        h  == R.S.c
    IN  IF opt = 0
        THEN [S |-> [GRBadd(S1, tag, id, GLin(<<h>>, <<1>>, "=", 0)) EXCEPT !.c = S1.c + 1],
              h |-> Append(R.h, h)]
        ELSE [S |-> S1, h |-> Append(R.h, h)]

RECURSIVE frame_distances(_, _, _, _)
frame_distances(R, n, frame_it, opt) ==
    IF frame_it >= n.number_frames THEN R
    ELSE frame_distances(distance_variable(R, n.frames[frame_it + 1].end_to_end_delay,
                                           <<"FrameDistance", frame_it>>, opt, "frame_distance", frame_it),
                         n, frame_it + 1, opt)

RECURSIVE link_distances(_, _, _, _)
link_distances(R, n, link_it, opt) ==
    IF link_it >= n.number_links THEN R
    ELSE link_distances(distance_variable(R, get_hyper_period(n), <<"LinkDistance", link_it>>, opt,
                                          "link_distance", link_it),
                        n, link_it + 1, opt)

\* result: the emission, gurobi_frame_distance and gurobi_link_distance
initialize_distances(S, n, opt) ==
    LET F == frame_distances([S |-> S, h |-> <<>>], n, 0, opt)
        L == link_distances([S |-> F.S, h |-> <<>>], n, 0, opt)
    IN  [S |-> L.S, frame |-> F.h, link |-> L.h]

\* (frame, offset) in the order of the loops of choose_path
FrameOffsets(n) ==
    Concat([f \in 1..n.number_frames |->
      [pos \in 1..Len(OffsetsOf(n.frames[f])) |-> <<f - 1, pos>>]])

\* the selectors of the receiver whose path holds the link, one per occurrence
RECURSIVE add_args_of(_, _, _, _, _, _)
add_args_of(n, at, frame_it, receiver_it, path_it, link) ==
    IF path_it >= NumPathsOf(n, frame_it, receiver_it) THEN <<>>
    ELSE LET path_pt == PathOf(n, frame_it, receiver_it, path_it)
             hits == SelectSeq(SubSeq(path_pt.path, 1, path_pt.length), LAMBDA l : l = link)
         IN  [j \in 1..Len(hits) |-> at[<<frame_it, receiver_it, path_it>>]]
             \o add_args_of(n, at, frame_it, receiver_it, path_it + 1, link)

\* the receivers loop of choose_path_z3: the formulas to OR
RECURSIVE z3_or_args_of(_, _, _, _)
z3_or_args_of(S, n, fo, receiver_it) ==
    IF receiver_it >= n.frames[fo[1] + 1].num_receivers THEN <<>>
    ELSE LET link == n.frames[fo[1] + 1].offset_ls[fo[2]].link
             z3_add_args == add_args_of(n, path_selector.at, fo[1], receiver_it, 0, link)
             z3_offset == get_z3_offset(S, Cell(fo[1], fo[2], 0, 0))
             z3_formula == Ite(Cmp("ge", Term(z3_add_args, 0), Num(1)),
                               Cmp("ge", Var(z3_offset), Num(1)),
                               Cmp("eq", Var(z3_offset), Num(0)))
         IN  (IF z3_add_args # <<>> THEN <<z3_formula>> ELSE <<>>)
             \o z3_or_args_of(S, n, fo, receiver_it + 1)

choose_path_z3_offset(S, n, fo) ==
    LET z3_or_args == z3_or_args_of(S, n, fo, 0)
    IN  IF z3_or_args = <<>> THEN S
        ELSE IF Len(z3_or_args) > 1 THEN Z3_optimize_assert(S, "choose", fo, Or(z3_or_args))
        ELSE Z3_optimize_assert(S, "choose", fo, z3_or_args[1])

RECURSIVE choose_path_z3_loop(_, _, _)
choose_path_z3_loop(S, n, fos) ==
    IF fos = <<>> THEN S
    ELSE choose_path_z3_loop(choose_path_z3_offset(S, n, Head(fos)), n, Tail(fos))

choose_path_z3(S, n) == choose_path_z3_loop(S, n, FrameOffsets(n))

\* the receivers loop of choose_path_gurobi; R = [S, or], or the OR variables so far
RECURSIVE gurobi_or_of(_, _, _, _)
gurobi_or_of(R, n, fo, receiver_it) ==
    IF receiver_it >= n.frames[fo[1] + 1].num_receivers THEN R
    ELSE LET link == n.frames[fo[1] + 1].offset_ls[fo[2]].link
             add_path_selectors == add_args_of(n, gurobi_path_selector.at, fo[1], receiver_it, 0, link)
             S1 == [GRBaddvar(R.S, GVar(0, 1, "B", 0, "")) EXCEPT !.c = R.S.c + 1]
             S2 == GRBadd(S1, "choose", fo, GOr(S1.c - 1, add_path_selectors))
         IN  IF add_path_selectors # <<>>
             THEN gurobi_or_of([S |-> S2, or |-> Append(R.or, S1.c - 1)], n, fo, receiver_it + 1)
             ELSE gurobi_or_of(R, n, fo, receiver_it + 1)

choose_path_gurobi_offset(S, n, fo) ==
    LET R  == gurobi_or_of([S |-> S, or |-> <<>>], n, fo, 0)
        S1 == IF Len(R.or) > 1
              THEN LET A == [GRBaddvar(R.S, GVar(0, 1, "B", 0, "")) EXCEPT !.c = R.S.c + 1]
                   IN  GRBadd(A, "choose", fo, GOr(A.c - 1, R.or))
              ELSE R.S
        variables == <<get_gurobi_offset(S1, Cell(fo[1], fo[2], 0, 0))>>
        S2 == GRBadd(S1, "choose", fo, GInd(S1.c - 1, 0, variables, <<1>>, "=", 0))
    IN  IF R.or = <<>> THEN S
        ELSE GRBadd(S2, "choose", fo, GInd(S1.c - 1, 1, variables, <<1>>, ">=", 1))

RECURSIVE choose_path_gurobi_loop(_, _, _)
choose_path_gurobi_loop(S, n, fos) ==
    IF fos = <<>> THEN S
    ELSE choose_path_gurobi_loop(choose_path_gurobi_offset(S, n, Head(fos)), n, Tail(fos))

choose_path_gurobi(S, n) == choose_path_gurobi_loop(S, n, FrameOffsets(n))

choose_path(S, n, csolver) ==
    IF csolver = "z3" THEN choose_path_z3(S, n) ELSE choose_path_gurobi(S, n)

\* (frame, receiver, path, link index) in the order of the loops of frame_path_dependent
PathSteps(n) ==
    Concat([j \in 1..Len(Triples(n)) |->
      LET t == Triples(n)[j]
      IN  [link_it \in 1..Max(PathOf(n, t[1], t[2], t[3]).length - 1, 0) |->
             <<t[1], t[2], t[3], link_it - 1>>]])

frame_path_dependent_step(S, n, st, csolver) ==
    LET frame_pt == n.frames[st[1] + 1]
        path_pt == PathOf(n, st[1], st[2], st[3])
        offset_pt == get_frame_offset_by_link(frame_pt, path_pt.path[st[4] + 1])
        distance == get_timeslot_size(frame_pt, offset_pt) + n.switch_minimum_time
        next_offset_pt == get_frame_offset_by_link(frame_pt, path_pt.path[st[4] + 2])
        S1 == set_minimum_distance(S, Cell(st[1], offset_pt, 0, 0), Cell(st[1], next_offset_pt, 0, 0),
                                   distance, st[1], st[2], st[3], csolver)
    IN  IF S1.err < 0 THEN Fail(S1, ERROR_PATH_DEPENDENT_CONSTRAINS) ELSE S1

RECURSIVE frame_path_dependent_loop(_, _, _, _)
frame_path_dependent_loop(S, n, steps, csolver) ==
    IF steps = <<>> \/ S.err # 0 THEN S
    ELSE frame_path_dependent_loop(frame_path_dependent_step(S, n, Head(steps), csolver), n,
                                   Tail(steps), csolver)

frame_path_dependent(S, n, csolver) == frame_path_dependent_loop(S, n, PathSteps(n), csolver)

frame_end_to_end_delay_path(S, n, t, cssolver) ==
    LET frame_pt == n.frames[t[1] + 1]
        delay == frame_pt.end_to_end_delay
        path_pt == PathOf(n, t[1], t[2], t[3])
        first_link == path_pt.path[1]
        last_link == path_pt.path[path_pt.length]
        first_offset_pt == get_frame_offset_by_link(frame_pt, first_link)
        last_offset_pt == get_frame_offset_by_link(frame_pt, last_link)
        distance == delay - get_timeslot_size(frame_pt, last_offset_pt)
        S1 == set_maximum_distance(S, Cell(t[1], first_offset_pt, 0, 0), Cell(t[1], last_offset_pt, 0, 0),
                                   distance, t[1], t[2], t[3], cssolver)
    IN  IF S1.err < 0 THEN Fail(S1, ERROR_END_TO_END_DELAY_CONSTRAINTS) ELSE S1

RECURSIVE frame_end_to_end_delay_loop(_, _, _, _)
frame_end_to_end_delay_loop(S, n, ts, cssolver) ==
    IF ts = <<>> \/ S.err # 0 THEN S
    ELSE frame_end_to_end_delay_loop(frame_end_to_end_delay_path(S, n, Head(ts), cssolver), n,
                                     Tail(ts), cssolver)

frame_end_to_end_delay(S, n, cssolver) == frame_end_to_end_delay_loop(S, n, Triples(n), cssolver)

initialize_solver(s) == IF s = "z3" THEN 0 ELSE OPTIMIZATOR_NOT_IMPLEMENTED

check_solver(csolver) == 0

\* read_schedule_configuration: the globals it sets and its return code
read_schedule_configuration(cf) ==
    [rc |-> IF cf.solver \in {"gurobi", "z3"} THEN 0 ELSE SOLVER_NOT_FOUND,
     optimization |-> cf.optimization, select_path |-> cf.select_path,
     solver |-> IF cf.solver = "gurobi" THEN "gurobi" ELSE "z3"]

(***************************************************************************)
(* The files a run is started on, and what lies at address 0               *)
(***************************************************************************)
MissingFile == [name |-> "missing"]

ZeroFile ==
    [name |-> "none", number_frames |-> 0, number_switches |-> 0, number_end_systems |-> 0,
     number_links |-> 0, min_time |-> 0, replicas |-> 0, nodes |-> <<>>, links |-> <<>>,
     paths |-> <<>>, frames |-> <<>>]

ConfigurationFiles ==
    [solver : {"z3", "gurobi"}, select_path : {0, 1}, optimization : {0, 1}]
      \cup {[solver |-> "cplex", select_path |-> 0, optimization |-> 0]}

NoPath == [length |-> 0, path |-> <<>>]

NullPages(nf) ==
    {[state |-> "fault", path |-> NoPath]}
      \cup (IF nf = MissingFile THEN {}
            ELSE {[state |-> "mapped", path |-> g] : g \in GarbagePaths(nf)})

(***************************************************************************)
(* Scheduler.c : one_shot_scheduling, one action per call it makes         *)
(***************************************************************************)
Emitting == Emission(z3_optimize, z_offset, gurobi_model, g_offset, gurobi_var_counter)

Commit(S) ==
    /\ z3_optimize' = S.z
    /\ z_offset' = S.zo
    /\ gurobi_model' = S.g
    /\ g_offset' = S.go
    /\ gurobi_var_counter' = S.c

Return(code) == pc' = "done" /\ result' = code

\* a driver that makes the path ordering call before the contention call
GotoPathsFirst(label) ==
    /\ pc' = (CASE label = "contention_free" -> "frame_path_dependent"
                [] label = "frame_end_to_end_delay" -> "contention_free"
                [] label = "frame_path_dependent" -> "frame_end_to_end_delay"
                [] OTHER -> label)
    /\ result' = result

Goto(label) == pc' = label /\ result' = result

Init ==
    /\ network_file \in NetworkFiles \cup {MissingFile}
    /\ configuration_file \in ConfigurationFiles
    /\ null_page \in NullPages(network_file)
    /\ pc = "parse_network_xml"
    /\ result = 0
    /\ solver = "z3"
    /\ select_path = 0
    /\ optimization = 0
    /\ net = EmptyNetwork(ZeroFile)
    /\ path_selector = [alloc |-> FALSE, at |-> <<>>]
    /\ gurobi_path_selector = [alloc |-> FALSE, at |-> <<>>]
    /\ gurobi_var_counter = 0
    /\ gurobi_frame_distance = <<>>
    /\ gurobi_link_distance = <<>>
    /\ z_offset = <<>>
    /\ g_offset = <<>>
    /\ z3_optimize = <<>>
    /\ gurobi_model = [vars |-> <<>>, constrs |-> <<>>, refused |-> <<>>]
    /\ first_emission = [done |-> FALSE]

ParseNetwork ==
    /\ pc = "parse_network_xml"
    /\ IF network_file = MissingFile
       THEN Return(ERROR_SCHEDULING_ONE_SHOT) /\ UNCHANGED net
       ELSE Goto("read_schedule_configuration") /\ net' = parse_network_xml(network_file)
    /\ UNCHANGED <<first_emission, network_file, configuration_file, solver, select_path, optimization, null_page,
                   path_selector, gurobi_path_selector, gurobi_var_counter, gurobi_frame_distance,
                   gurobi_link_distance, z_offset, g_offset, z3_optimize, gurobi_model>>

ReadScheduleConfiguration ==
    /\ pc = "read_schedule_configuration"
    /\ LET r == read_schedule_configuration(configuration_file)
       IN  /\ optimization' = r.optimization
           /\ select_path' = r.select_path
           /\ solver' = r.solver
           /\ IF r.rc < 0 THEN Return(ERROR_SCHEDULING_ONE_SHOT) ELSE Goto("initialize_solver")
    /\ UNCHANGED <<first_emission, network_file, configuration_file, net, null_page,
                   path_selector, gurobi_path_selector, gurobi_var_counter, gurobi_frame_distance,
                   gurobi_link_distance, z_offset, g_offset, z3_optimize, gurobi_model>>

InitializeSolver ==
    /\ pc = "initialize_solver"
    /\ Goto("initialize_network")
    /\ IF solver = "z3"
       THEN z3_optimize' = <<>> /\ UNCHANGED gurobi_model
       ELSE gurobi_model' = [vars |-> <<>>, constrs |-> <<>>, refused |-> <<>>] /\ UNCHANGED z3_optimize
    /\ UNCHANGED <<first_emission, network_file, configuration_file, solver, select_path, optimization, net, null_page,
                   path_selector, gurobi_path_selector, gurobi_var_counter, gurobi_frame_distance,
                   gurobi_link_distance, z_offset, g_offset>>

InitializeNetwork ==
    /\ pc = "initialize_network"
    /\ \E fill \in HeapValues : net' = PrepareOffsets(initialize_network(net), fill)
    /\ Goto(IF select_path = 1 THEN "init_path_selector" ELSE "create_offset_variables")
    /\ UNCHANGED <<first_emission, network_file, configuration_file, solver, select_path, optimization, null_page,
                   path_selector, gurobi_path_selector, gurobi_var_counter, gurobi_frame_distance,
                   gurobi_link_distance, z_offset, g_offset, z3_optimize, gurobi_model>>

InitPathSelector ==
    /\ pc = "init_path_selector"
    /\ LET R == init_path_selector(Emitting, net, solver)
       IN  /\ Commit(R.S)
           /\ IF solver = "z3"
              THEN path_selector' = [alloc |-> TRUE, at |-> R.at] /\ UNCHANGED gurobi_path_selector
              ELSE gurobi_path_selector' = [alloc |-> TRUE, at |-> R.at] /\ UNCHANGED path_selector
    /\ Goto("create_offset_variables")
    /\ UNCHANGED <<first_emission, network_file, configuration_file, solver, select_path, optimization, net, null_page,
                   gurobi_frame_distance, gurobi_link_distance>>

CreateOffsetVariables ==
    /\ pc = "create_offset_variables"
    /\ LET S == create_offset_variables(Emitting, net, solver)
       IN  /\ Commit(S)
           /\ IF S.err < 0 THEN Return(ERROR_SCHEDULING_ONE_SHOT)
              ELSE Goto(IF solver = "gurobi" THEN "initialize_distances"
                        ELSE IF select_path = 1 THEN "choose_path" ELSE "contention_free")
    /\ UNCHANGED <<first_emission, network_file, configuration_file, solver, select_path, optimization, net, null_page,
                   path_selector, gurobi_path_selector, gurobi_frame_distance, gurobi_link_distance>>

InitializeDistances ==
    /\ pc = "initialize_distances"
    /\ LET R == initialize_distances(Emitting, net, optimization)
       IN  /\ Commit(R.S)
           /\ gurobi_frame_distance' = R.frame
           /\ gurobi_link_distance' = R.link
    /\ Goto(IF select_path = 1 THEN "choose_path" ELSE "contention_free")
    /\ UNCHANGED <<first_emission, network_file, configuration_file, solver, select_path, optimization, net, null_page,
                   path_selector, gurobi_path_selector>>

\* the process dies on the first load through the NULL Path pointer
Faults(n) == null_page.state = "fault" /\ LoadsThroughNull(n)

Crash == pc' = "crashed" /\ result' = result

ChoosePath ==
    /\ pc = "choose_path"
    /\ IF Faults(net) /\ FrameOffsets(net) # <<>>
       THEN Crash /\ UNCHANGED <<z3_optimize, z_offset, gurobi_model, g_offset, gurobi_var_counter>>
       ELSE Commit(choose_path(Emitting, net, solver)) /\ Goto("contention_free")
    /\ UNCHANGED <<first_emission, network_file, configuration_file, solver, select_path, optimization, net, null_page,
                   path_selector, gurobi_path_selector, gurobi_frame_distance, gurobi_link_distance>>

ContentionFree ==
    /\ pc = "contention_free"
    /\ LET S == contention_free(Emitting, net, solver)
       IN  /\ Commit(S)
           /\ IF S.err < 0 THEN Return(ERROR_SCHEDULING_ONE_SHOT) ELSE Goto("frame_path_dependent")
    /\ UNCHANGED <<first_emission, network_file, configuration_file, solver, select_path, optimization, net, null_page,
                   path_selector, gurobi_path_selector, gurobi_frame_distance, gurobi_link_distance>>

FramePathDependent ==
    /\ pc = "frame_path_dependent"
    /\ IF Faults(net)
       THEN Crash /\ UNCHANGED <<z3_optimize, z_offset, gurobi_model, g_offset, gurobi_var_counter>>
       ELSE LET S == frame_path_dependent(Emitting, net, solver)
            IN  /\ Commit(S)
                /\ IF S.err < 0 THEN Return(ERROR_SCHEDULING_ONE_SHOT)
                   ELSE Goto("frame_end_to_end_delay")
    /\ UNCHANGED <<first_emission, network_file, configuration_file, solver, select_path, optimization, net, null_page,
                   path_selector, gurobi_path_selector, gurobi_frame_distance, gurobi_link_distance>>

FrameEndToEndDelay ==
    /\ pc = "frame_end_to_end_delay"
    /\ IF Faults(net)
       THEN Crash /\ UNCHANGED <<z3_optimize, z_offset, gurobi_model, g_offset, gurobi_var_counter>>
       ELSE LET S == frame_end_to_end_delay(Emitting, net, solver)
            IN  /\ Commit(S)
                /\ IF S.err < 0 THEN Return(ERROR_SCHEDULING_ONE_SHOT) ELSE Goto("check_solver")
    /\ UNCHANGED <<first_emission, network_file, configuration_file, solver, select_path, optimization, net, null_page,
                   path_selector, gurobi_path_selector, gurobi_frame_distance, gurobi_link_distance>>

CheckSolver ==
    /\ pc = "check_solver"
    /\ IF check_solver(solver) < 0 THEN Return(ERROR_SCHEDULING_ONE_SHOT) ELSE Return(0)
    /\ UNCHANGED <<first_emission, network_file, configuration_file, solver, select_path, optimization, net, null_page,
                   path_selector, gurobi_path_selector, gurobi_var_counter, gurobi_frame_distance,
                   gurobi_link_distance, z_offset, g_offset, z3_optimize, gurobi_model>>

Next ==
    \/ ParseNetwork
    \/ ReadScheduleConfiguration
    \/ InitializeSolver
    \/ InitializeNetwork
    \/ InitPathSelector
    \/ CreateOffsetVariables
    \/ InitializeDistances
    \/ ChoosePath
    \/ ContentionFree
    \/ FramePathDependent
    \/ FrameEndToEndDelay
    \/ CheckSolver

Spec == Init /\ [][Next]_vars

(***************************************************************************)
(* What the backends decide: when an assignment satisfies what was handed  *)
(* to them (Z3_optimize_check, GRBoptimize).                               *)
(***************************************************************************)
RECURSIVE SumVars(_, _)
SumVars(vs, a) == IF vs = <<>> THEN 0 ELSE a[Head(vs)] + SumVars(Tail(vs), a)

TermValue(t, a) == SumVars(t.vs, a) + t.c

Compare(op, x, y) ==
    CASE op = "eq" -> x = y
      [] op = "le" -> x <= y
      [] op = "ge" -> x >= y
      [] op = "gt" -> x > y

\* a Z3 assertion under an assignment of its integer constants
RECURSIVE Z3Holds(_, _)
Z3Holds(f, a) ==
    CASE f.k = "cmp" -> Compare(f.op, TermValue(f.l, a), TermValue(f.r, a))
      [] f.k = "or"  -> \E j \in 1..Len(f.args) : Z3Holds(f.args[j], a)
      [] f.k = "ite" -> IF Z3Holds(f.c, a) THEN Z3Holds(f.t, a) ELSE Z3Holds(f.e, a)

RECURSIVE LinValue(_, _, _)
LinValue(vs, vals, a) ==
    IF vs = <<>> THEN 0 ELSE Head(vals) * a[Head(vs)] + LinValue(Tail(vs), Tail(vals), a)

Sense(x, sense, rhs) ==
    CASE sense = "="  -> x = rhs
      [] sense = "<=" -> x <= rhs
      [] sense = ">=" -> x >= rhs

\* a Gurobi constraint under an assignment of the variables it names
GRBHolds(c, a) ==
    CASE c.k = "lin" -> Sense(LinValue(c.vars, c.vals, a), c.sense, c.rhs)
      [] c.k = "ind" -> a[c.binvar] = c.binval => Sense(LinValue(c.vars, c.vals, a), c.sense, c.rhs)
      [] c.k = "or"  -> a[c.resvar] = (IF \E j \in 1..Len(c.vars) : a[c.vars[j]] = 1 THEN 1 ELSE 0)

\* the values the bounds of a Gurobi variable allow
GRBDomain(model, j) == model.vars[j + 1].lb .. model.vars[j + 1].ub

\* all assignments of the variables V with a[v] in dom[v]
RECURSIVE Assignments(_, _)
Assignments(V, dom) ==
    IF V = {} THEN {<<>>}
    ELSE LET v == CHOOSE x \in V : TRUE
         IN  {(v :> x) @@ a : x \in dom[v], a \in Assignments(V \ {v}, dom)}

\* the assertions / constraints emitted under a tag for a key
Z3Group(tag, key) ==
    {z3_optimize[j].f : j \in {i \in 1..Len(z3_optimize) :
                                 z3_optimize[i].tag = tag /\ z3_optimize[i].key = key}}

GRBGroup(tag, key) ==
    {gurobi_model.constrs[j].c : j \in {i \in 1..Len(gurobi_model.constrs) :
         gurobi_model.constrs[i].tag = tag /\ gurobi_model.constrs[i].key = key}}

\* can the assignment a of some variables of the group be completed, within
\* the bounds of the remaining ones, so that every constraint of the group holds
GRBSatisfiable(group, a) ==
    LET free == (UNION {GIndices(c) : c \in group}) \ DOMAIN a
    IN  \E b \in Assignments(free, [j \in free |-> GRBDomain(gurobi_model, j)]) :
           \A c \in group : GRBHolds(c, a @@ b)

(***************************************************************************)
(* Properties of the emitted model                                         *)
(***************************************************************************)
\* the times a transmission can be given: 0 (unused) up to the hyper-period
Times == 0..net.hyper_period

\* the window the data model gives offset cell (f, o, i, r) when every offset is used
RangeLo(cell) ==
    net.frames[cell[1] + 1].starting + cell[3] * net.frames[cell[1] + 1].period + 1

RangeHi(cell) ==
    (net.frames[cell[1] + 1].deadline - net.frames[cell[1] + 1].offset_ls[cell[2]].timeslots)
      + cell[3] * net.frames[cell[1] + 1].period

\* the values the Z3 range assertions of a cell admit, looked at from -1 to one
\* past the hyper-period
Z3Admitted(cell) ==
    {v \in -1..(net.hyper_period + 1) :
       \A f \in Z3Group("range", cell) : Z3Holds(f, (z_offset[cell] :> v))}

GRBAdmitted(cell) == GRBDomain(gurobi_model, g_offset[cell])

\* C2: without path selection the range emitted for every offset cell admits
\* exactly [starting + i*period + 1, deadline - timeslots + i*period], in the Z3
\* backend and in the Gurobi backend.
C2_RangeWithoutSelection ==
    (~path_selector.alloc /\ ~gurobi_path_selector.alloc) =>
       /\ \A cell \in DOMAIN z_offset : Z3Admitted(cell) = RangeLo(cell)..RangeHi(cell)
       /\ \A cell \in DOMAIN g_offset : GRBAdmitted(cell) = RangeLo(cell)..RangeHi(cell)

\* C3: with path selection active the range of every offset cell admits 0
\* ("unused") and nothing above deadline - timeslots + i*period, in both backends.
C3_RangeAdmitsZero ==
    /\ path_selector.alloc =>
         \A cell \in DOMAIN z_offset :
            0 \in Z3Admitted(cell) /\ Z3Admitted(cell) \subseteq 0..RangeHi(cell)
    /\ gurobi_path_selector.alloc =>
         \A cell \in DOMAIN g_offset :
            0 \in GRBAdmitted(cell) /\ GRBAdmitted(cell) \subseteq 0..RangeHi(cell)

\* the selectors of one (frame, receiver)
SelectorKeys(fk) == {<<fk[1], fk[2], p>> : p \in 0..(NumPathsOf(net, fk[1], fk[2]) - 1)}

\* the assignments of the selectors of (frame, receiver) that satisfy what
\* init_path_selector emitted for them
Z3SelectorSolutions(fk) ==
    LET names == {path_selector.at[t] : t \in SelectorKeys(fk)}
        group == Z3Group("selector_sum", fk)
                   \cup UNION {Z3Group("selector_bound", t) : t \in SelectorKeys(fk)}
    IN  {a \in Assignments(names, [x \in names |-> -1..2]) : \A f \in group : Z3Holds(f, a)}

GRBSelectorSolutions(fk) ==
    LET idx == {gurobi_path_selector.at[t] : t \in SelectorKeys(fk)}
    IN  {a \in Assignments(idx, [j \in idx |-> GRBDomain(gurobi_model, j)]) :
           \A c \in GRBGroup("selector_sum", fk) : GRBHolds(c, a)}

ExactlyOneSelected(a) ==
    /\ Cardinality({x \in DOMAIN a : a[x] = 1}) = 1
    /\ \A x \in DOMAIN a : a[x] \in {0, 1}

\* C5: with path selection active, every assignment that satisfies the constraints
\* init_path_selector emitted has, for every frame and every receiver, exactly one
\* selector equal to 1 and all the others equal to 0.
C5_ExactlyOnePath ==
    /\ path_selector.alloc =>
         \A fk \in SeqToSet(Pairs(net)) : \A a \in Z3SelectorSolutions(fk) : ExactlyOneSelected(a)
    /\ gurobi_path_selector.alloc =>
         \A fk \in SeqToSet(Pairs(net)) : \A a \in GRBSelectorSolutions(fk) : ExactlyOneSelected(a)

\* a receiver with two alternative paths whose selectors have two different solutions
C5_Witness ==
    \/ /\ path_selector.alloc
       /\ \E fk \in SeqToSet(Pairs(net)) :
             NumPathsOf(net, fk[1], fk[2]) = 2 /\ Cardinality(Z3SelectorSolutions(fk)) = 2
    \/ /\ gurobi_path_selector.alloc
       /\ \E fk \in SeqToSet(Pairs(net)) :
             NumPathsOf(net, fk[1], fk[2]) = 2 /\ Cardinality(GRBSelectorSolutions(fk)) = 2

\* what the linkage is to force between cell (0,0) and cell (i,r) of an offset
Linked(x0, x1, distance, selecting) ==
    IF selecting /\ x0 = 0 THEN x1 = 0 ELSE x1 = x0 + distance

\* C9: for every offset cell (i,r) other than (0,0) every assignment satisfying the
\* linkage has O[i,r] = O[0,0] + i*period; with path selection active, O[i,r] = 0
\* when O[0,0] = 0 and the equality otherwise; in both backends.
C9_Linkage ==
    /\ \A cell \in DOMAIN z_offset :
          (cell[3] # 0 \/ cell[4] # 0) =>
             LET n0 == z_offset[Cell(cell[1], cell[2], 0, 0)]
                 n1 == z_offset[cell]
             IN  \A a \in Assignments({n0, n1}, [x \in {n0, n1} |-> Times]) :
                    (\A f \in Z3Group("linkage", cell) : Z3Holds(f, a)) =>
                       Linked(a[n0], a[n1], cell[3] * net.frames[cell[1] + 1].period,
                              path_selector.alloc)
    /\ \A cell \in DOMAIN g_offset :
          (cell[3] # 0 \/ cell[4] # 0) =>
             LET h0 == g_offset[Cell(cell[1], cell[2], 0, 0)]
                 h1 == g_offset[cell]
             IN  \A a \in Assignments({h0, h1}, [x \in {h0, h1} |-> Times]) :
                    GRBSatisfiable(GRBGroup("linkage", cell), a) =>
                       Linked(a[h0], a[h1], cell[3] * net.frames[cell[1] + 1].period,
                              gurobi_path_selector.alloc)

\* the integer constants a Z3 assertion names
RECURSIVE Z3Vars(_)
Z3Vars(f) ==
    CASE f.k = "cmp" -> SeqToSet(f.l.vs) \cup SeqToSet(f.r.vs)
      [] f.k = "or"  -> UNION {Z3Vars(f.args[j]) : j \in 1..Len(f.args)}
      [] f.k = "ite" -> Z3Vars(f.c) \cup Z3Vars(f.t) \cup Z3Vars(f.e)

\* the assertions emitted under one of the tags
Z3Tagged(tags) == {z3_optimize[j].f : j \in {i \in 1..Len(z3_optimize) : z3_optimize[i].tag \in tags}}

\* the keys under which constraints of a tag were emitted
Z3Keys(tag) == {z3_optimize[j].key : j \in {i \in 1..Len(z3_optimize) : z3_optimize[i].tag = tag}}

GRBKeys(tag) ==
    {gurobi_model.constrs[j].key : j \in {i \in 1..Len(gurobi_model.constrs) :
                                            gurobi_model.constrs[i].tag = tag}}

\* the assignments of the constants todo, one constant at a time, that satisfy
\* every assertion of F whose constants are all assigned
RECURSIVE Z3Extend(_, _, _, _)
Z3Extend(A, todo, F, values) ==
    IF todo = <<>> THEN A
    ELSE LET v == Head(todo)
             now(a) == {f \in F : v \in Z3Vars(f) /\ Z3Vars(f) \subseteq DOMAIN a}
             grown == {(v :> x) @@ a : a \in A, x \in values}
         IN  Z3Extend({a \in grown : \A f \in now(a) : Z3Holds(f, a)}, Tail(todo), F, values)

\* the same for Gurobi: G is a set of constraint groups, P the variables assigned
\* one at a time; the other variables of a group are completed within their bounds
RECURSIVE GRBExtend(_, _, _, _, _)
GRBExtend(A, todo, G, P, dom) ==
    IF todo = <<>> THEN A
    ELSE LET v == Head(todo)
             named(g) == (UNION {GIndices(c) : c \in g}) \cap P
             now(a) == {g \in G : v \in named(g) /\ named(g) \subseteq DOMAIN a}
             grown == {(v :> x) @@ a : a \in A, x \in dom[v]}
         IN  GRBExtend({a \in grown : \A g \in now(a) : GRBSatisfiable(g, a)}, Tail(todo), G, P, dom)

\* every assignment of the offsets that satisfies all that create_offset_variables
\* and contention_free asserted in Z3
Z3Schedules ==
    Z3Extend({<<>>}, [j \in 1..Len(AllCells(net)) |-> z_offset[AllCells(net)[j]]],
             Z3Tagged({"range", "linkage", "contention"}), -1..(net.hyper_period + 1))

\* every assignment of the offsets, within their bounds and with the link distances
\* at 0, that satisfies all that create_offset_variables and contention_free added
\* to the Gurobi model
GRBSchedules ==
    LET cells == [j \in 1..Len(AllCells(net)) |-> g_offset[AllCells(net)[j]]]
        P == SeqToSet(cells) \cup SeqToSet(gurobi_link_distance)
        dom == [j \in P |-> IF j \in SeqToSet(gurobi_link_distance)
                            THEN {0} \cap GRBDomain(gurobi_model, j)
                            ELSE GRBDomain(gurobi_model, j)]
        G == {GRBGroup("linkage", k) : k \in GRBKeys("linkage")}
               \cup {GRBGroup("contention", k) : k \in GRBKeys("contention")}
    IN  GRBExtend({<<>>}, gurobi_link_distance \o cells, G, P, dom)

LinkOfCell(cell) == net.frames[cell[1] + 1].offset_ls[cell[2]].link

TimeslotsOfCell(cell) == net.frames[cell[1] + 1].offset_ls[cell[2]].timeslots

\* the intervals [t1, t1 + timeslots1) and [t2, t2 + timeslots2) do not overlap
Disjoint(t1, cell1, t2, cell2) ==
    t1 + TimeslotsOfCell(cell1) <= t2 \/ t2 + TimeslotsOfCell(cell2) <= t1

SameLinkPairs ==
    {pr \in SeqToSet(AllCells(net)) \X SeqToSet(AllCells(net)) :
       pr[1] # pr[2] /\ LinkOfCell(pr[1]) = LinkOfCell(pr[2])}

\* C1: in every assignment that satisfies all that create_offset_variables and
\* contention_free emitted, any two distinct transmissions on one link, replicas of
\* one instance and instances of one frame included, occupy disjoint intervals
\* (stated without path selection, where every transmission is active; Gurobi with
\* the distances of the optimisation declared).
C1_ContentionFree ==
    (pc = "frame_path_dependent" /\ select_path = 0) =>
       /\ solver = "z3" =>
            \A a \in Z3Schedules : \A pr \in SameLinkPairs :
               Disjoint(a[z_offset[pr[1]]], pr[1], a[z_offset[pr[2]]], pr[2])
       /\ (solver = "gurobi" /\ optimization = 1) =>
            \A a \in GRBSchedules : \A pr \in SameLinkPairs :
               Disjoint(a[g_offset[pr[1]]], pr[1], a[g_offset[pr[2]]], pr[2])

PathOnFile(t) ==
    StoredPath(net, net.frames[t[1] + 1].sender_id, net.frames[t[1] + 1].receivers_id[t[2] + 1], t[3])

\* the cell (0,0) of the offset of the frame on a link
CellOnLink(frame_it, link) ==
    Cell(frame_it, get_frame_offset_by_link(net.frames[frame_it + 1], link), 0, 0)

\* one path chosen for every receiver of the frame
Selections(frame_it) ==
    Assignments(0..(net.frames[frame_it + 1].num_receivers - 1),
                [k \in 0..(net.frames[frame_it + 1].num_receivers - 1) |->
                   0..(NumPathsOf(net, frame_it, k) - 1)])

\* the values of the selectors of the frame under a selection; at is the selector table
SelectorValues(frame_it, sel, at) ==
    LET keys == UNION {SelectorKeys(<<frame_it, k>>) : k \in DOMAIN sel}
    IN  [x \in {at[t] : t \in keys} |->
           IF \E k \in DOMAIN sel : at[<<frame_it, k, sel[k]>>] = x THEN 1 ELSE 0]

\* U(l, f): some receiver's selected path holds the link
Used(frame_it, sel, link) ==
    \E k \in DOMAIN sel : link \in SeqToSet(PathOnFile(<<frame_it, k, sel[k]>>).path)

Coupled(used, v) == IF used THEN v >= 1 ELSE v = 0

Z3OfTriple(tags, t) ==
    {z3_optimize[j].f : j \in {i \in 1..Len(z3_optimize) :
        /\ z3_optimize[i].tag \in tags
        /\ IF z3_optimize[i].tag = "mindist" THEN z3_optimize[i].key[1] = t
           ELSE z3_optimize[i].key = t}}

GRBOfTriple(tags, t) ==
    {gurobi_model.constrs[j].c : j \in {i \in 1..Len(gurobi_model.constrs) :
        /\ gurobi_model.constrs[i].tag \in tags
        /\ IF gurobi_model.constrs[i].tag = "mindist" THEN gurobi_model.constrs[i].key[1] = t
           ELSE gurobi_model.constrs[i].key = t}}

\* can the assignment a be completed, with times for the other constants, so that
\* every assertion of F holds
Z3Satisfiable(F, a) ==
    LET free == (UNION {Z3Vars(f) : f \in F}) \ DOMAIN a
    IN  \E b \in Assignments(free, [x \in free |-> Times]) : \A f \in F : Z3Holds(f, a @@ b)

\* the selector of the triple at 1 when path selection is active, nothing otherwise
Z3Selected(t) == IF path_selector.alloc THEN (path_selector.at[t] :> 1) ELSE <<>>

GRBSelected(t) == IF gurobi_path_selector.alloc THEN (gurobi_path_selector.at[t] :> 1) ELSE <<>>

\* the consecutive links (index j, j + 1) of the paths on file
PathHops ==
    {<<t, j>> \in SeqToSet(Triples(net)) \X (1..net.number_links) : j < PathOnFile(t).length}

MaxPeriod == 3
\* largest instance number offsets_share_interval is tried on
MaxInstance == 2

\* frame parameters with 0 <= starting < deadline <= period
FrameParameters ==
    {fp \in [period : 1..MaxPeriod, deadline : 1..MaxPeriod, starting : 0..MaxPeriod] :
       fp.starting < fp.deadline /\ fp.deadline <= fp.period}

\* the half-open intervals [lo1, hi1) and [lo2, hi2) have a point in common
IntervalsIntersect(lo1, hi1, lo2, hi2) == \E t \in lo1..(hi1 - 1) : t \in lo2..(hi2 - 1)

WindowLo(fp, i) == fp.period * i + fp.starting + 1

WindowHi(fp, i) == fp.period * i + fp.deadline + 1

\* the pairs (cell, cell of an earlier frame) on one link whose windows intersect
CollidingPairs ==
    {pr \in SameLinkPairs :
       /\ pr[2][1] < pr[1][1]
       /\ offsets_share_interval(net.frames[pr[1][1] + 1], pr[1][3],
                                 net.frames[pr[2][1] + 1], pr[2][3]) = 1}

\* how many times a constraint of the tag was asserted in Z3 under the key
Z3Count(tag, key) ==
    Cardinality({i \in 1..Len(z3_optimize) : z3_optimize[i].tag = tag /\ z3_optimize[i].key = key})

\* how many OR constraints of the tag the Gurobi model holds under the key
GRBOrCount(tag, key) ==
    Cardinality({i \in 1..Len(gurobi_model.constrs) :
                   /\ gurobi_model.constrs[i].tag = tag
                   /\ gurobi_model.constrs[i].key = key
                   /\ gurobi_model.constrs[i].c.k = "or"})

\* how many indicator constraints of the tag the Gurobi model holds under the key
GRBIndicatorCount(tag, key) ==
    Cardinality({i \in 1..Len(gurobi_model.constrs) :
                   /\ gurobi_model.constrs[i].tag = tag
                   /\ gurobi_model.constrs[i].key = key
                   /\ gurobi_model.constrs[i].c.k = "ind"})

\* C11: offsets_share_interval returns 1 exactly when the windows
\* [period*i + starting + 1, period*i + deadline + 1) of the two instances
\* intersect, and after contention_free the model holds exactly one
\* avoid_intersection constraint (in Gurobi: one OR with its two orderings) for
\* every colliding pair of cells of distinct frames on one link, and none for
\* any other pair.
C11_SharedIntervalPairs ==
    /\ \A f1 \in FrameParameters : \A f2 \in FrameParameters :
         \A i1 \in 0..MaxInstance : \A i2 \in 0..MaxInstance :
            (offsets_share_interval(f1, i1, f2, i2) = 1)
              <=> IntervalsIntersect(WindowLo(f1, i1), WindowHi(f1, i1),
                                     WindowLo(f2, i2), WindowHi(f2, i2))
    /\ pc = "frame_path_dependent" =>
         /\ solver = "z3" =>
              /\ Z3Keys("contention") \subseteq CollidingPairs
              /\ \A pr \in CollidingPairs : Z3Count("contention", pr) = 1
         /\ solver = "gurobi" =>
              /\ GRBKeys("contention") \subseteq CollidingPairs
              /\ \A pr \in CollidingPairs :
                    /\ GRBOrCount("contention", pr) = 1
                    /\ GRBIndicatorCount("contention", pr) >= 2

(***************************************************************************)
(* The distance variables of the optimisation                              *)
(***************************************************************************)
\* the indices of the variables FrameDistance_f and LinkDistance_l in the model
DistanceVariables ==
    {j \in 0..(Len(gurobi_model.vars) - 1) :
       /\ gurobi_model.vars[j + 1].vtype = "I"
       /\ gurobi_model.vars[j + 1].name[1] \in {"FrameDistance", "LinkDistance"}}

\* the model holds the constraint  variable j = 0
FixedAtZero(j) ==
    \E i \in 1..Len(gurobi_model.constrs) :
       /\ gurobi_model.constrs[i].c.k = "lin"
       /\ gurobi_model.constrs[i].c = GLin(<<j>>, <<1>>, "=", 0)

\* C12: with optimization = 0, once initialize_distances has run, the model
\* holds one distance variable per frame and per link, and each of them is
\* constrained by an equality to 0.
C12_DistancesFixedAtZero ==
    (solver = "gurobi" /\ optimization = 0 /\ gurobi_frame_distance # <<>>) =>
       /\ Cardinality(DistanceVariables) = net.number_frames + net.number_links
       /\ \A j \in DistanceVariables : FixedAtZero(j)

\* the index of the variable FrameDistance_f in the model
FrameDistanceIndex(frame_it) ==
    CHOOSE j \in DistanceVariables : gurobi_model.vars[j + 1].name = <<"FrameDistance", frame_it>>

Z3Tags == [i \in 1..Len(z3_optimize) |-> z3_optimize[i].tag]

GRBTags == [i \in 1..Len(gurobi_model.constrs) |-> gurobi_model.constrs[i].tag]

\* the group of a tag in the order the calls of one_shot_scheduling follow:
\* selectors, offsets with range and linkage, distances, coupling, contention,
\* path ordering, end-to-end delay
CallRank(tag) ==
    CASE tag \in {"selector_bound", "selector_sum"} -> 1
      [] tag \in {"range", "linkage"} -> 2
      [] tag \in {"frame_distance", "link_distance"} -> 3
      [] tag = "choose" -> 4
      [] tag = "contention" -> 5
      [] tag = "mindist" -> 6
      [] OTHER -> 7

\* the group of a tag in the order offsets, selectors, coupling, linkage, path
\* ordering, end-to-end delay, contention, distances
ListedRank(tag) ==
    CASE tag = "range" -> 1
      [] tag \in {"selector_bound", "selector_sum"} -> 2
      [] tag = "choose" -> 3
      [] tag = "linkage" -> 4
      [] tag = "mindist" -> 5
      [] tag \in {"maxdist", "maxdist_first", "maxdist_last"} -> 6
      [] tag = "contention" -> 7
      [] OTHER -> 8

\* the group the call the driver is about to make belongs to
StepRank ==
    CASE pc \in {"parse_network_xml", "read_schedule_configuration", "initialize_solver",
                 "initialize_network", "init_path_selector"} -> 1
      [] pc = "create_offset_variables" -> 2
      [] pc = "initialize_distances" -> 3
      [] pc = "choose_path" -> 4
      [] pc = "contention_free" -> 5
      [] pc = "frame_path_dependent" -> 6
      [] pc = "frame_end_to_end_delay" -> 7
      [] OTHER -> 8

\* the indices of the selectors, of the offsets and of the distances among the
\* variables of the Gurobi model
GRBSelectors == {gurobi_path_selector.at[k] : k \in DOMAIN gurobi_path_selector.at}

GRBOffsets ==
    {j \in 0..(Len(gurobi_model.vars) - 1) :
       gurobi_model.vars[j + 1].vtype = "I" /\ gurobi_model.vars[j + 1].name[1] = "O"}

RECURSIVE Z3Names(_)
Z3Names(f) ==
    CASE f.k = "cmp" -> SeqToSet(f.l.vs) \cup SeqToSet(f.r.vs)
      [] f.k = "or" -> UNION {Z3Names(f.args[i]) : i \in 1..Len(f.args)}
      [] f.k = "ite" -> Z3Names(f.c) \cup Z3Names(f.t) \cup Z3Names(f.e)

\* the Z3 constants made so far: the offsets and the path selectors
Z3Declared ==
    {z_offset[c] : c \in DOMAIN z_offset} \cup {path_selector.at[k] : k \in DOMAIN path_selector.at}

\* C15: whatever was handed to a backend names only variables the run had
\* declared by then: no Z3 assertion names a constant that was not made, and
\* no Gurobi call named an index the model did not hold
C15_DeclaredBeforeReferenced ==
    /\ \A i \in 1..Len(z3_optimize) : Z3Names(z3_optimize[i].f) \subseteq Z3Declared
    /\ gurobi_model.refused = <<>>


(***************************************************************************)
(* The registry used on its own: Frame.c and Network.c called by a client  *)
(* that is not the driver.  The variables of the scheduler keep the values *)
(* they have before one_shot_scheduling is called; net holds the registry, *)
(* pc the name of the last call and result what it returned.               *)
(***************************************************************************)
\* number of links of the frame whose offset list is built
MaxLinks == 4

LibraryInit ==
    /\ network_file = MissingFile
    /\ configuration_file = [solver |-> "z3", select_path |-> 0, optimization |-> 0]
    /\ null_page = [state |-> "fault", path |-> NoPath]
    /\ solver = "z3"
    /\ select_path = 0
    /\ optimization = 0
    /\ path_selector = [alloc |-> FALSE, at |-> <<>>]
    /\ gurobi_path_selector = [alloc |-> FALSE, at |-> <<>>]
    /\ gurobi_var_counter = 0
    /\ gurobi_frame_distance = <<>>
    /\ gurobi_link_distance = <<>>
    /\ z_offset = <<>>
    /\ g_offset = <<>>
    /\ z3_optimize = <<>>
    /\ gurobi_model = [vars |-> <<>>, constrs |-> <<>>, refused |-> <<>>]
    /\ first_emission = [done |-> FALSE]

LibraryUnchanged ==
    UNCHANGED <<first_emission, network_file, configuration_file, solver, select_path, optimization, null_page,
                path_selector, gurobi_path_selector, gurobi_var_counter, gurobi_frame_distance,
                gurobi_link_distance, z_offset, g_offset, z3_optimize, gurobi_model>>

\* one frame after init_frame, in a network of MaxLinks links
OffsetInit ==
    /\ LibraryInit
    /\ net = EmptyNetwork([ZeroFile EXCEPT !.number_frames = 1, !.number_links = MaxLinks])
    /\ pc = "init_frame"
    /\ result = NULL

\* result = add_new_offset(get_offset_root(frame), link)
AddNewOffset ==
    /\ \E link \in 0..(MaxLinks - 1) :
         LET r == add_new_offset(net.frames[1].offset_ls, link)
         IN  /\ net' = [net EXCEPT !.frames[1].offset_ls = r.ls]
             /\ result' = r.ptr
    /\ pc' = "add_new_offset"
    /\ LibraryUnchanged

OffsetNext == AddNewOffset

OffsetSpec == OffsetInit /\ [][OffsetNext]_vars

\* the links of the offsets of a list
LinksOf(ls) == {ls[i].link : i \in 1..(Len(ls) - 1)}

\* C16: on the offset list the calls so far have built, add_new_offset for a
\* link of the list returns the offset of that link, not NULL, and leaves the
\* list as it is; for a new link it appends one offset and returns it
C16_AddNewOffsetDeduplicates ==
    LET ls == net.frames[1].offset_ls
    IN  \A link \in 0..(MaxLinks - 1) :
          LET r == add_new_offset(ls, link)
          IN  IF link \in LinksOf(ls)
              THEN r.ptr # NULL /\ r.ls = ls /\ ls[r.ptr].link = link
              ELSE /\ r.ptr # NULL
                   /\ Len(r.ls) = Len(ls) + 1
                   /\ LinksOf(r.ls) = LinksOf(ls) \cup {link}
                   /\ r.ls[r.ptr].link = link
                   /\ \A i \in 1..(Len(ls) - 1) : r.ls[i] = ls[i]


(***************************************************************************)
(* The path table: init_path_structure, add_path, get_path                 *)
(***************************************************************************)
\* most paths stored for one (sender, receiver)
MaxPathsPerPair == 2

\* two end systems and one switch, no path yet
PathFile ==
    [ZeroFile EXCEPT !.name = "paths", !.number_switches = 1, !.number_end_systems = 2,
                     !.number_links = 2,
                     !.nodes = <<Node(0, "end_system"), Node(1, "end_system"), Node(2, "switch")>>]

\* the paths a client adds
PathInputs == {<<0>>, <<0, 1>>}

\* the node ids a client passes: one below the range, the nodes, one above
NodeIds(n) == (-1)..(n.number_end_systems + n.number_switches)

EndSystemIds(n) ==
    {n.input.nodes[i].id : i \in {j \in 1..Len(n.input.nodes) : n.input.nodes[j].category = "end_system"}}

\* end_systems_hash comes from malloc: the entries read_nodes_information_xml
\* did not write hold whatever the memory held, an index of the table or not
Uninitialised(n, garbage) ==
    [n EXCEPT !.end_systems_hash =
       [j \in DOMAIN n.end_systems_hash |->
          IF n.end_systems_hash[j] = Unwritten THEN garbage ELSE n.end_systems_hash[j]]]

\* what one call of add_path can do: return with the registry it leaves, or die.
\* A position read from an entry of end_systems_hash that was never written may
\* lie outside the table; the write through it kills the process or lands in
\* memory that is not the table
AddPathOutcomes(n, sender_id, receiver_id, path, len_path) ==
    IF \/ sender_id < 0 \/ sender_id >= n.number_end_systems + n.number_switches
       \/ receiver_id < 0 \/ receiver_id >= n.number_end_systems + n.number_switches
       \/ len_path <= 0
    THEN {[pc |-> "add_path", rc |-> add_path(n, sender_id, receiver_id, path, len_path).rc, n |-> n]}
    ELSE IF /\ n.end_systems_hash[sender_id + 1] \in 0..(n.number_end_systems - 1)
            /\ n.end_systems_hash[receiver_id + 1] \in 0..(n.number_end_systems - 1)
         THEN LET a == add_path(n, sender_id, receiver_id, path, len_path)
              IN  {[pc |-> "add_path", rc |-> a.rc, n |-> a.n]}
         ELSE {[pc |-> "crashed", rc |-> 0, n |-> n], [pc |-> "add_path", rc |-> 0, n |-> n]}

PathInit ==
    /\ LibraryInit
    /\ \E garbage \in 0..PathFile.number_end_systems :
         net = Uninitialised(read_nodes(EmptyNetwork(PathFile), PathFile.nodes, 0), garbage)
    /\ pc = "init_path_structure"
    /\ result = 0

\* result = add_path(sender_id, receiver_id, path, len_path)
AddPath ==
    /\ pc # "crashed"
    /\ \E sender_id, receiver_id \in NodeIds(net), path \in PathInputs :
         \E len_path \in {0, Len(path)} :
           \E o \in AddPathOutcomes(net, sender_id, receiver_id, path, len_path) :
             /\ \A sp, rp \in 1..net.number_end_systems : Len(o.n.paths[sp][rp]) <= MaxPathsPerPair
             /\ net' = o.n
             /\ result' = o.rc
             /\ pc' = o.pc
    /\ LibraryUnchanged

PathNext == AddPath

PathSpec == PathInit /\ [][PathNext]_vars

\* the paths stored for a pair of end systems
PathsOfPair(n, sender_id, receiver_id) ==
    n.paths[n.end_systems_hash[sender_id + 1] + 1][n.end_systems_hash[receiver_id + 1] + 1]

\* C17: whatever add_path calls have returned so far, get_path(s, r, i) for two
\* end systems and 0 <= i < number of paths stored for (s, r) returns the
\* pointer to the i-th path of (s, r): not NULL, and not a path of another pair
C17_GetPathReturnsAdded ==
    pc # "crashed" =>
      \A s, r \in EndSystemIds(net) :
        \A i \in 0..(Len(PathsOfPair(net, s, r)) - 1) :
          LET p == get_path(net, s, r, i)
          IN  /\ ~p.null
              /\ p.sp = net.end_systems_hash[s + 1]
              /\ p.rp = net.end_systems_hash[r + 1]
              /\ p.id = i

\* the pointer names a path that add_path stored
PointsAtStoredPath(n, p) ==
    /\ p.sp \in 0..(n.number_end_systems - 1)
    /\ p.rp \in 0..(n.number_end_systems - 1)
    /\ p.id \in 0..(Len(n.paths[p.sp + 1][p.rp + 1]) - 1)

\* C18: get_path with an id that is no registered end system, or a path id
\* outside [0, num_paths), returns NULL; it never returns a pointer to a path
\* that was not added; add_path with an id that is no registered end system
\* returns PATH_DOES_NOT_EXIST and leaves the path table as it was
C18_UnknownEndSystemNotFound ==
    pc # "crashed" =>
      /\ \A s, r \in NodeIds(net), i \in (-1)..(MaxPathsPerPair + 1) :
           LET p == get_path(net, s, r, i)
           IN  /\ ({s, r} \subseteq EndSystemIds(net) /\ i \in 0..(Len(PathsOfPair(net, s, r)) - 1))
                    \/ p.null
               /\ ~p.null => PointsAtStoredPath(net, p)
      /\ \A s, r \in NodeIds(net), path \in PathInputs :
           ~({s, r} \subseteq EndSystemIds(net)) =>
             \A o \in AddPathOutcomes(net, s, r, path, Len(path)) :
               o.pc # "crashed" /\ o.rc = PATH_DOES_NOT_EXIST /\ o.n = net


(***************************************************************************)
(* The timing fields of a frame: the setters of Frame.c                    *)
(***************************************************************************)
\* largest value a client passes to a setter
MaxFieldValue == 3

\* the values a client passes, rejected ones included
FieldValues == (-1)..MaxFieldValue

\* a registry of one frame and one link, before the frame is filled in
OneFrameNetwork == EmptyNetwork([ZeroFile EXCEPT !.number_frames = 1, !.number_links = 1])

\* add_frame_information has set every field of the frame successfully
FrameInit ==
    /\ LibraryInit
    /\ \E period, deadline, starting, end_to_end \in FieldValues :
         LET a == add_frame_information(OneFrameNetwork, 0, period, deadline, 1, starting, end_to_end)
         IN  a.rc = 0 /\ net = a.n
    /\ pc = "add_frame_information"
    /\ result = 0

\* the frame the setter leaves and what it returns
FrameCall(s) == net' = [net EXCEPT !.frames[1] = s.f] /\ result' = s.rc

SetPeriod ==
    /\ \E period \in FieldValues : FrameCall(set_period(net.frames[1], period))
    /\ pc' = "set_period"
    /\ LibraryUnchanged

SetDeadline ==
    /\ \E deadline \in FieldValues : FrameCall(set_deadline(net.frames[1], deadline))
    /\ pc' = "set_deadline"
    /\ LibraryUnchanged

SetStarting ==
    /\ \E starting \in FieldValues : FrameCall(set_starting(net.frames[1], starting))
    /\ pc' = "set_starting"
    /\ LibraryUnchanged

SetEndToEndDelay ==
    /\ \E delay \in FieldValues : FrameCall(set_end_to_end_delay(net.frames[1], delay))
    /\ pc' = "set_end_to_end_delay"
    /\ LibraryUnchanged

FrameNext ==
    \/ SetPeriod
    \/ SetDeadline
    \/ SetStarting
    \/ SetEndToEndDelay

FrameSpec == FrameInit /\ [][FrameNext]_vars

\* C19: once every field was set successfully, no sequence of calls of the four
\* setters leaves a frame with deadline > period, starting outside
\* [0, deadline) or end_to_end outside (0, deadline]
C19_FrameFieldsOrdered ==
    LET f == net.frames[1]
    IN  /\ f.deadline <= f.period
        /\ 0 <= f.starting /\ f.starting < f.deadline
        /\ 0 < f.end_to_end_delay /\ f.end_to_end_delay <= f.deadline


(***************************************************************************)
(* Errors of the steps and the driver                                      *)
(***************************************************************************)
\* the driver is past its call of initialize_solver
SolverInitialised ==
    pc \notin {"parse_network_xml", "read_schedule_configuration", "initialize_solver"}

\* C20: when initialize_solver returns an error, the run stops there: it is
\* over, it returned an error code, and nothing was handed to the backend
C20_StopsAtFirstError ==
    (SolverInitialised /\ initialize_solver(solver) < 0) =>
      /\ pc = "done"
      /\ result < 0
      /\ gurobi_model.vars = <<>> /\ gurobi_model.constrs = <<>> /\ gurobi_model.refused = <<>>
      /\ z3_optimize = <<>>


(***************************************************************************)
(* What check_solver finds                                                 *)
(***************************************************************************)
\* the constants of a set in some order
RECURSIVE InSomeOrder(_)
InSomeOrder(V) ==
    IF V = {} THEN <<>> ELSE LET v == CHOOSE x \in V : TRUE IN <<v>> \o InSomeOrder(V \ {v})

\* the search of a backend: the assignment a can be completed over the
\* constants todo, one at a time, so that every assertion of F holds
RECURSIVE Z3Completes(_, _, _, _)
Z3Completes(a, todo, F, values) ==
    IF todo = <<>> THEN TRUE
    ELSE \E x \in values :
           LET b == (Head(todo) :> x) @@ a
           IN  /\ \A f \in F : (Head(todo) \in Z3Vars(f) /\ Z3Vars(f) \subseteq DOMAIN b) => Z3Holds(f, b)
               /\ Z3Completes(b, Tail(todo), F, values)

RECURSIVE GRBCompletes(_, _, _)
GRBCompletes(a, todo, C) ==
    IF todo = <<>> THEN TRUE
    ELSE \E x \in GRBDomain(gurobi_model, Head(todo)) :
           LET b == (Head(todo) :> x) @@ a
           IN  /\ \A c \in C : (Head(todo) \in GIndices(c) /\ GIndices(c) \subseteq DOMAIN b) => GRBHolds(c, b)
               /\ GRBCompletes(b, Tail(todo), C)

\* Z3_optimize_check answers Z3_L_TRUE: some assignment of the constants the
\* assertions name satisfies every assertion
Z3Feasible ==
    LET F == {z3_optimize[i].f : i \in 1..Len(z3_optimize)}
    IN  Z3Completes(<<>>, InSomeOrder(UNION {Z3Vars(f) : f \in F}), F, (-1)..(net.hyper_period + 1))

\* GRBoptimize leaves SolCount > 0: some assignment of the variables within
\* their bounds satisfies every constraint of the model
GRBFeasible ==
    LET C == {gurobi_model.constrs[i].c : i \in 1..Len(gurobi_model.constrs)}
        named == UNION {GIndices(c) : c \in C}
        idle == (0..(Len(gurobi_model.vars) - 1)) \ named
    IN  /\ \A j \in idle : GRBDomain(gurobi_model, j) # {}
        /\ GRBCompletes(<<>>, InSomeOrder(named), C)

StoredOffset(cell) ==
    get_offset(net.frames[cell[1] + 1].offset_ls[cell[2]], cell[3], cell[4], 0)

\* the stored start times as values of the variables of the offsets
Z3Stored ==
    [nm \in {z_offset[c] : c \in DOMAIN z_offset} |->
       StoredOffset(CHOOSE c \in DOMAIN z_offset : z_offset[c] = nm)]

GRBStored ==
    [j \in {g_offset[c] : c \in DOMAIN g_offset} |->
       StoredOffset(CHOOSE c \in DOMAIN g_offset : g_offset[c] = j)]

\* the stored start times are the offsets of some solution of the model
Z3StoredIsSolution ==
    LET F == {z3_optimize[i].f : i \in 1..Len(z3_optimize)}
        names == UNION {Z3Vars(f) : f \in F}
    IN  /\ \A f \in F : Z3Vars(f) \subseteq DOMAIN Z3Stored => Z3Holds(f, Z3Stored)
        /\ Z3Completes(Z3Stored, InSomeOrder(names \ DOMAIN Z3Stored), F, (-1)..(net.hyper_period + 1))

GRBStoredIsSolution ==
    LET C == {gurobi_model.constrs[i].c : i \in 1..Len(gurobi_model.constrs)}
        named == UNION {GIndices(c) : c \in C}
    IN  /\ \A j \in DOMAIN GRBStored : GRBStored[j] \in GRBDomain(gurobi_model, j)
        /\ \A c \in C : GIndices(c) \subseteq DOMAIN GRBStored => GRBHolds(c, GRBStored)
        /\ GRBCompletes(GRBStored, InSomeOrder(named \ DOMAIN GRBStored), C)

Emitted ==
    [done |-> TRUE, z3_optimize |-> z3_optimize, gurobi_model |-> gurobi_model,
     z_offset |-> z_offset, g_offset |-> g_offset,
     path_selector |-> path_selector, gurobi_path_selector |-> gurobi_path_selector,
     gurobi_frame_distance |-> gurobi_frame_distance, gurobi_link_distance |-> gurobi_link_distance]

\* after a run that returned 0: initialize_solver is called again and the
\* emission steps follow; what the first emission produced is kept in
\* first_emission.  The globals of Optimizator.c are left as they are.
EmitAgain ==
    /\ pc = "done"
    /\ result = 0
    /\ ~first_emission.done
    /\ first_emission' = Emitted
    /\ IF solver = "z3"
       THEN z3_optimize' = <<>> /\ UNCHANGED gurobi_model
       ELSE gurobi_model' = [vars |-> <<>>, constrs |-> <<>>, refused |-> <<>>] /\ UNCHANGED z3_optimize
    /\ Goto(IF select_path = 1 THEN "init_path_selector" ELSE "create_offset_variables")
    /\ UNCHANGED <<network_file, configuration_file, solver, select_path, optimization, net, null_page,
                   path_selector, gurobi_path_selector, gurobi_var_counter, gurobi_frame_distance,
                   gurobi_link_distance, z_offset, g_offset>>

AgainNext ==
    \/ Next
    \/ EmitAgain

AgainSpec == Init /\ [][AgainNext]_vars

\* the names of the variables of the Gurobi model, in the order of their indices
GRBNames(model) == [j \in 1..Len(model.vars) |-> model.vars[j].name]

MaxCount == 2
Counts == (-1)..MaxCount

\* the offset add_new_offset leaves for link 0 in the list of a new frame
MatrixInit ==
    /\ LibraryInit
    /\ net = add_new_offset(FreshFrame.offset_ls, 0).ls[1]
    /\ pc = "add_new_offset"
    /\ result = 0

OffsetCall(s) == net' = s.o /\ result' = s.rc

\* the numbers are set before the matrix is allocated
SetNumInstances ==
    /\ pc # "crashed"
    /\ net.offset = <<>>
    /\ \E v \in Counts : OffsetCall(set_num_instances(net, v))
    /\ pc' = "set_num_instances"
    /\ LibraryUnchanged

SetReplicas ==
    /\ pc # "crashed"
    /\ net.offset = <<>>
    /\ \E v \in Counts : OffsetCall(set_replicas(net, v))
    /\ pc' = "set_replicas"
    /\ LibraryUnchanged

PrepareOffset ==
    /\ pc # "crashed"
    /\ net.offset = <<>>
    /\ \E fill \in HeapValues : OffsetCall(prepare_offset(net, fill))
    /\ pc' = "prepare_offset"
    /\ LibraryUnchanged

SetOffset ==
    /\ pc # "crashed"
    /\ net.offset # <<>>
    /\ \E i \in Counts, r \in Counts, v \in HeapValues : OffsetCall(set_offset(net, i, r, v))
    /\ pc' = "set_offset"
    /\ LibraryUnchanged

\* a read beyond the matrix kills the process or yields what the memory holds
GetOffset ==
    /\ pc # "crashed"
    /\ net.offset # <<>>
    /\ \E i \in Counts, r \in Counts :
         \/ \E outside \in HeapValues : result' = get_offset(net, i, r, outside) /\ pc' = "get_offset"
         \/ /\ i >= 0 /\ r >= 0 /\ ~(i < Len(net.offset) /\ r < Len(net.offset[i + 1]))
            /\ Crash
    /\ net' = net
    /\ LibraryUnchanged

MatrixNext ==
    \/ SetNumInstances
    \/ SetReplicas
    \/ PrepareOffset
    \/ SetOffset
    \/ GetOffset

MatrixSpec == MatrixInit /\ [][MatrixNext]_vars

\* C24: an offset that prepare_offset has accepted has at least one instance
\* and at least one replica, set_replicas rejects 0 replicas and
\* prepare_offset rejects an offset of 0 replicas
C24_PreparedHasFirstCell ==
    /\ (pc = "prepare_offset" /\ result = 0) => (net.num_instances >= 1 /\ net.num_replicas >= 1)
    /\ (pc = "set_replicas" /\ result = 0) => net.num_replicas >= 1


\* the cell (i, r) lies in the matrix of the offset
InMatrix(o, i, r) == 0 <= i /\ i < o.num_instances /\ 0 <= r /\ r < o.num_replicas

\* set_offset on a prepared offset: it succeeds exactly on a cell of the
\* matrix with a value that is not negative, then get_offset reads the value
\* and no other cell has changed; otherwise it returns an error and changes nothing
SetOffsetChecked ==
    net.offset # <<>> =>
      \A i \in Counts, r \in Counts, v \in HeapValues :
        LET s == set_offset(net, i, r, v)
        IN  IF InMatrix(net, i, r) /\ v >= 0
            THEN /\ s.rc = 0
                 /\ \A outside \in HeapValues : get_offset(s.o, i, r, outside) = v
                 /\ \A j \in 0..(net.num_instances - 1), q \in 0..(net.num_replicas - 1) :
                      <<j, q>> # <<i, r>> => s.o.offset[j + 1][q + 1] = net.offset[j + 1][q + 1]
                 /\ [s.o EXCEPT !.offset = net.offset] = net
            ELSE s.rc < 0 /\ s.o = net

\* get_offset on a prepared offset for a cell beyond the matrix returns an error code
GetOffsetChecked ==
    net.offset # <<>> =>
      /\ \A i \in Counts, r \in Counts, outside \in HeapValues :
           (i >= net.num_instances \/ r >= net.num_replicas) => get_offset(net, i, r, outside) < 0
      /\ pc # "crashed"

\* C30: set_offset writes exactly the cells of the matrix and rejects every
\* other call without a change, and get_offset returns an error code for a
\* cell beyond the matrix
C30_MatrixAccessChecked == SetOffsetChecked /\ GetOffsetChecked


(***************************************************************************)
(* Network.c : the calls the ingestion makes for the links and the frames  *)
(***************************************************************************)
\* the numbers of links and of frames the file declares
DeclaredLinks == 2
DeclaredFrames == 1

\* an id below 0 makes add_link write at links[link_id], before the array:
\* the process dies, or the write lands outside the entries of the array and
\* the call returns what set_link_speed returns
AddLinkOutcomes(n, link_id, speed, link_type) ==
    IF link_id < 0
    THEN {[pc |-> "crashed", rc |-> 0, n |-> n],
          [pc |-> "add_link", rc |-> (IF speed <= 0 THEN -15 ELSE 0), n |-> n]}
    ELSE LET a == add_link(n, link_id, speed, link_type)
         IN  {[pc |-> "add_link", rc |-> a.rc, n |-> a.n]}

\* an id below 0 makes add_frame_information work on frames[frame_id], before
\* the array: the process dies, or the setters accept or reject their values
\* against what that memory holds
AddFrameInformationOutcomes(n, frame_id, period, deadline, size, starting_time, end_to_end) ==
    IF frame_id < 0
    THEN {[pc |-> "crashed", rc |-> 0, n |-> n],
          [pc |-> "add_frame_information", rc |-> 0, n |-> n],
          [pc |-> "add_frame_information", rc |-> -12, n |-> n]}
    ELSE LET a == add_frame_information(n, frame_id, period, deadline, size, starting_time, end_to_end)
         IN  {[pc |-> "add_frame_information", rc |-> a.rc, n |-> a.n]}

IngestInit ==
    /\ LibraryInit
    /\ net = EmptyNetwork([ZeroFile EXCEPT !.number_frames = DeclaredFrames, !.number_links = DeclaredLinks])
    /\ pc = "read_general_information_xml"
    /\ result = 0

AddLink ==
    /\ pc # "crashed"
    /\ \E link_id \in (-1)..DeclaredLinks, speed \in {0, 8}, link_type \in {"wired", "wireless"} :
         \E o \in AddLinkOutcomes(net, link_id, speed, link_type) :
           /\ net' = o.n
           /\ result' = o.rc
           /\ pc' = o.pc
    /\ LibraryUnchanged

AddFrameInformation ==
    /\ pc # "crashed"
    /\ \E frame_id \in (-1)..DeclaredFrames, period \in {0, 2}, deadline \in {1, 2}, size \in {0, 1},
          starting_time \in {0, 1}, end_to_end \in {1, 2} :
         \E o \in AddFrameInformationOutcomes(net, frame_id, period, deadline, size, starting_time, end_to_end) :
           /\ net' = o.n
           /\ result' = o.rc
           /\ pc' = o.pc
    /\ LibraryUnchanged

IngestNext ==
    \/ AddLink
    \/ AddFrameInformation

IngestSpec == IngestInit /\ [][IngestNext]_vars

\* the ids add_link and add_frame_information are called with that lie outside
\* the declared numbers
OutsideLinks == {-1, DeclaredLinks}
OutsideFrames == {-1, DeclaredFrames}

\* C25: called with a link id or a frame id outside [0, declared number),
\* add_link and add_frame_information return an error code and write no
\* entry of the links or of the frames
C25_OutsideIdRejected ==
    pc # "crashed" =>
      /\ \A link_id \in OutsideLinks, speed \in {0, 8}, link_type \in {"wired", "wireless"} :
           \A o \in AddLinkOutcomes(net, link_id, speed, link_type) :
              o.pc # "crashed" /\ o.rc < 0 /\ o.n = net
      /\ \A frame_id \in OutsideFrames :
           \A o \in AddFrameInformationOutcomes(net, frame_id, 2, 2, 1, 0, 1) :
              o.pc # "crashed" /\ o.rc < 0 /\ o.n = net


(***************************************************************************)
(* The two backends on the same network                                    *)
(***************************************************************************)
\* after a Z3 run without path selection and without optimization that
\* returned 0: initialize_solver(gurobi) and the emission steps, for the same
\* network; what the Z3 emission produced is kept in first_emission
EmitWithGurobi ==
    /\ pc = "done"
    /\ result = 0
    /\ ~first_emission.done
    /\ solver = "z3" /\ select_path = 0 /\ optimization = 0
    /\ first_emission' = Emitted
    /\ solver' = "gurobi"
    /\ gurobi_model' = [vars |-> <<>>, constrs |-> <<>>, refused |-> <<>>]
    /\ Goto("create_offset_variables")
    /\ UNCHANGED <<network_file, configuration_file, select_path, optimization, net, null_page,
                   path_selector, gurobi_path_selector, gurobi_var_counter, gurobi_frame_distance,
                   gurobi_link_distance, z_offset, g_offset, z3_optimize>>

BothNext ==
    \/ Next
    \/ EmitWithGurobi

BothSpec == Init /\ [][BothNext]_vars

\* a start time for every offset cell, a, satisfies every Z3 assertion
Z3Accepts(a) ==
    LET b == [nm \in {first_emission.z_offset[c] : c \in DOMAIN a} |->
                a[CHOOSE c \in DOMAIN a : first_emission.z_offset[c] = nm]]
    IN  \A i \in 1..Len(first_emission.z3_optimize) : Z3Holds(first_emission.z3_optimize[i].f, b)

\* the start times a, with every distance variable 0, can be extended to a
\* solution of the Gurobi model
GRBAccepts(a) ==
    LET C == {gurobi_model.constrs[i].c : i \in 1..Len(gurobi_model.constrs)}
        named == UNION {GIndices(c) : c \in C}
        cells == {g_offset[c] : c \in DOMAIN a}
        b == [j \in cells \cup DistanceVariables |->
                IF j \in cells THEN a[CHOOSE c \in DOMAIN a : g_offset[c] = j] ELSE 0]
    IN  /\ \A j \in DOMAIN b : j < Len(gurobi_model.vars) => b[j] \in GRBDomain(gurobi_model, j)
        /\ \A c \in C : GIndices(c) \subseteq DOMAIN b => GRBHolds(c, b)
        /\ GRBCompletes(b, InSomeOrder(named \ DOMAIN b), C)

IsHandleOf(h, name) ==
    /\ 0 <= h /\ h < Len(gurobi_model.vars)
    /\ gurobi_model.vars[h + 1].vtype # "B" \/ name[1] = "X"
    /\ gurobi_model.vars[h + 1].name = name

HandlesAreIndices ==
    /\ gurobi_var_counter = Len(gurobi_model.vars)
    /\ \A cell \in DOMAIN g_offset :
         IsHandleOf(g_offset[cell],
                    OName(cell[1], cell[3], cell[4], net.frames[cell[1] + 1].offset_ls[cell[2]].link))
    /\ \A key \in DOMAIN gurobi_path_selector.at :
         IsHandleOf(gurobi_path_selector.at[key], XName(key[1], key[2], key[3]))
    /\ \A f \in 1..Len(gurobi_frame_distance) :
         IsHandleOf(gurobi_frame_distance[f], <<"FrameDistance", f - 1>>)
    /\ \A l \in 1..Len(gurobi_link_distance) :
         IsHandleOf(gurobi_link_distance[l], <<"LinkDistance", l - 1>>)

\* C28: in a Gurobi run, between any two calls of the emission,
\* gurobi_var_counter is the number of variables of the model and every
\* stored handle is the index of the variable it was created for
C28_HandlesAreIndices ==
    solver = "gurobi" => HandlesAreIndices


(***************************************************************************)
(* What a setter that fails leaves behind                                  *)
(***************************************************************************)
\* the arrays of receivers set_receivers_id is called with
ReceiverInputs == {<<1>>, <<-1>>, <<1, -1>>, <<-1, 1>>}

\* an offset with a matrix of one cell
OneCellOffset ==
    prepare_offset(set_replicas(set_num_instances(add_new_offset(FreshFrame.offset_ls, 0).ls[1], 1).o, 1).o, 0).o

FrameSettersKeep(frame) ==
    /\ \A v \in FieldValues :
         /\ set_period(frame, v).rc < 0 => set_period(frame, v).f = frame
         /\ set_deadline(frame, v).rc < 0 => set_deadline(frame, v).f = frame
         /\ set_size(frame, v).rc < 0 => set_size(frame, v).f = frame
         /\ set_starting(frame, v).rc < 0 => set_starting(frame, v).f = frame
         /\ set_end_to_end_delay(frame, v).rc < 0 => set_end_to_end_delay(frame, v).f = frame
         /\ set_sender_id(frame, v).rc < 0 => set_sender_id(frame, v).f = frame

ReceiversSetterKeeps(frame) ==
    \A ids \in ReceiverInputs : \A num_receivers \in {0, Len(ids)} :
       set_receivers_id(frame, ids, num_receivers).rc < 0
          => set_receivers_id(frame, ids, num_receivers).f = frame

OffsetSettersKeep(o) ==
    \A v \in FieldValues :
       /\ set_num_instances(o, v).rc < 0 => set_num_instances(o, v).o = o
       /\ set_replicas(o, v).rc < 0 => set_replicas(o, v).o = o
       /\ set_timeslot_size(o, v).rc < 0 => set_timeslot_size(o, v).o = o
       /\ \A i \in FieldValues, r \in FieldValues :
            set_offset(o, i, r, v).rc < 0 => set_offset(o, i, r, v).o = o

LinkSetterKeeps(l) ==
    \A v \in FieldValues : set_link_speed(l, v).rc < 0 => set_link_speed(l, v).l = l

\* C29: a setter of a frame, of an offset or of a link that returns a negative
\* code leaves every field of its target as it was
C29_FailedSetterChangesNothing ==
    /\ FrameSettersKeep(net.frames[1])
    /\ ReceiversSetterKeeps(net.frames[1])
    /\ OffsetSettersKeep(OneCellOffset)
    /\ LinkSetterKeeps([speed |-> 8, type |-> "wired"])


(***************************************************************************)
(* Frame.c : the offset lists of two frames, and the order in which        *)
(* create_offset_variables visits them                                     *)
(***************************************************************************)
\* the links the offsets of the second frame are added for
SecondLinks == {0, 1}

ListInit ==
    /\ LibraryInit
    /\ net = EmptyNetwork([ZeroFile EXCEPT !.number_frames = 2, !.number_links = MaxLinks])
    /\ pc = "init_frame"
    /\ result = NULL

\* result = add_new_offset(get_offset_root(get_frame(frame_it)), link)
AddNewOffsetToFrame ==
    /\ \E j \in 1..net.number_frames :
         \E link \in (IF j = 1 THEN 0..(MaxLinks - 1) ELSE SecondLinks) :
           LET r == add_new_offset(net.frames[j].offset_ls, link)
           IN  /\ net' = [net EXCEPT !.frames[j].offset_ls = r.ls]
               /\ result' = r.ptr
    /\ pc' = "add_new_offset"
    /\ LibraryUnchanged

ListNext == AddNewOffsetToFrame

ListSpec == ListInit /\ [][ListNext]_vars

\* the links met on the walk from get_offset_root with get_next_offset until is_last_offset
WalkedLinks(frame) == [k \in 1..Len(OffsetsOf(frame)) |-> OffsetsOf(frame)[k].link]

\* the list ends in its only sentinel and holds every link once
ListShape(frame) ==
    LET ls == frame.offset_ls
    IN  /\ Len(ls) >= 1
        /\ ls[Len(ls)].link = -1
        /\ \A k \in 1..(Len(ls) - 1) : ls[k].link >= 0
        /\ \A k, m \in 1..(Len(ls) - 1) : ls[k].link = ls[m].link => k = m

\* the network with one instance and one replica set for every offset
WithOneCell(n) ==
    [n EXCEPT !.frames =
       [j \in 1..n.number_frames |->
          [n.frames[j] EXCEPT !.offset_ls =
             [k \in 1..Len(n.frames[j].offset_ls) |->
                IF k < Len(n.frames[j].offset_ls)
                THEN set_replicas(set_num_instances(n.frames[j].offset_ls[k], 1).o, 1).o
                ELSE n.frames[j].offset_ls[k]]]]]

\* the frame and the link of every variable create_offset_variables makes, in
\* the order in which it makes them
VisitedByCreate(n) ==
    LET S == create_offset_variables(
               Emission(<<>>, <<>>, [vars |-> <<>>, constrs |-> <<>>, refused |-> <<>>], <<>>, 0),
               WithOneCell(n), "gurobi")
    IN  [j \in 1..Len(S.g.vars) |-> <<S.g.vars[j].name[2], S.g.vars[j].name[5]>>]

\* frame by frame in ascending id, the links of each frame as the walk meets them
FramesThenWalk(n) ==
    Concat([j \in 1..n.number_frames |->
              [k \in 1..Len(WalkedLinks(n.frames[j])) |-> <<j - 1, WalkedLinks(n.frames[j])[k]>>]])

ListInv ==
    /\ \A j \in 1..net.number_frames : ListShape(net.frames[j])
    /\ VisitedByCreate(net) = FramesThenWalk(net)

\* a call leaves the walk of every frame as it was, or adds one link at its end
ListStep ==
    \A j \in 1..net.number_frames :
       LET old == WalkedLinks(net.frames[j])
           new == WalkedLinks(net'.frames[j])
       IN  \/ new = old
           \/ /\ Len(new) = Len(old) + 1
              /\ SubSeq(new, 1, Len(old)) = old
              /\ new[Len(new)] \notin SeqToSet(old)

\* C27: after any calls of add_new_offset with links >= 0 the walk of a
\* frame's list meets every link once, in the order in which the links were
\* first added, the list ends in its one sentinel, no call removes or moves an
\* offset, and create_offset_variables visits the frames in ascending id and
\* the offsets of a frame in the order of the walk
C27_InsertionOrderKept == []ListInv /\ [][ListStep]_vars

\* a call for a link already in the list has returned, the first frame holds
\* two links added in descending order and the second frame holds a link
C27_Witness ==
    /\ pc = "add_new_offset"
    /\ result = NULL
    /\ Len(WalkedLinks(net.frames[1])) >= 2
    /\ WalkedLinks(net.frames[1])[1] > WalkedLinks(net.frames[1])[2]
    /\ WalkedLinks(net.frames[2]) # <<>>

====
